---------------------------- MODULE Spec2Model ----------------------------
(***************************************************************************)
(* Model of the documentation crawler: URL canonicalisation (urlUtils.js), *)
(* the admission filter (smartUrlFilter.js), the render task               *)
(* (processUrls.js), the result sink (saveUniqueUrls.js) and the frontier  *)
(* scheduler (crawlWebsite.js, second definition, lines 180-375).          *)
(*                                                                         *)
(* URLs are TLA+ strings.  The WHATWG parser is modelled for URLs of the   *)
(* shape scheme://host[/path][?query][#fragment] without ports, userinfo,  *)
(* dot segments or percent-encoding.                                       *)
(***************************************************************************)
EXTENDS Integers, Sequences, FiniteSets, TLC

(***************************************************************************)
(* String helpers (JavaScript String / RegExp primitives)                  *)
(***************************************************************************)
\* F applied to the value of e: JavaScript evaluates an argument once, before
\* the call
At(F(_), e) == CHOOSE r \in {F(x) : x \in {e}} : TRUE

Min(S) == CHOOSE m \in S : \A n \in S : m <= n

CharAt(s, i) == SubSeq(s, i, i)

StartsWith(s, p) == Len(s) >= Len(p) /\ SubSeq(s, 1, Len(p)) = p

EndsWith(s, p) == Len(s) >= Len(p) /\ SubSeq(s, Len(s) - Len(p) + 1, Len(s)) = p

\* positions at which the literal p occurs in s
Occurrences(s, p) ==
    At(LAMBDA x : {i \in 1..(Len(x) - Len(p) + 1) : SubSeq(x, i, i + Len(p) - 1) = p}, s)

Contains(s, p) == Occurrences(s, p) # {}

ContainsAny(s, P) == \E p \in P : Contains(s, p)

EndsWithAny(s, P) == \E p \in P : EndsWith(s, p)

\* /a.*b/ : some occurrence of a is followed (not overlapping) by an occurrence of b
ContainsThen(s, A, B) ==
    \E a \in A : \E i \in Occurrences(s, a) :
        \E b \in B : \E j \in Occurrences(s, b) : j >= i + Len(a)

\* first index >= from whose character is in the set C, or Len(s)+1
IndexOfAny(s, C, from) ==
    At(LAMBDA I : IF I = {} THEN Len(s) + 1 ELSE Min(I),
       {i \in from..Len(s) : CharAt(s, i) \in C})

LastIndexOf(s, c) ==
    At(LAMBDA I : IF I = {} THEN 0 ELSE CHOOSE m \in I : \A n \in I : n <= m,
       {i \in 1..Len(s) : CharAt(s, i) = c})

UpperChars == <<"A","B","C","D","E","F","G","H","I","J","K","L","M",
                "N","O","P","Q","R","S","T","U","V","W","X","Y","Z">>
LowerChars == <<"a","b","c","d","e","f","g","h","i","j","k","l","m",
                "n","o","p","q","r","s","t","u","v","w","x","y","z">>

LowerChar(c) ==
    IF \E k \in 1..26 : UpperChars[k] = c
    THEN LowerChars[CHOOSE k \in 1..26 : UpperChars[k] = c]
    ELSE c

RECURSIVE toLowerCase(_)
toLowerCase(s) ==
    At(LAMBDA x : IF x = "" THEN ""
                  ELSE IF Len(x) = 1 THEN LowerChar(x)
                  ELSE toLowerCase(SubSeq(x, 1, Len(x) \div 2))
                           \o toLowerCase(SubSeq(x, Len(x) \div 2 + 1, Len(x))), s)

Whitespace == {" ", "\t", "\n"}

RECURSIVE trim(_)
trim(s) ==
    At(LAMBDA x : IF x = "" THEN ""
                  ELSE IF CharAt(x, 1) \in Whitespace THEN trim(SubSeq(x, 2, Len(x)))
                  ELSE IF CharAt(x, Len(x)) \in Whitespace
                       THEN trim(SubSeq(x, 1, Len(x) - 1))
                  ELSE x, s)

\* String.prototype.split(sep) for a one-character separator
RECURSIVE Split(_, _)
Split(s, sep) ==
    At(LAMBDA x : LET i == IndexOfAny(x, {sep}, 1)
                  IN  IF i > Len(x) THEN <<x>>
                      ELSE <<SubSeq(x, 1, i - 1)>> \o Split(SubSeq(x, i + 1, Len(x)), sep),
       s)

RECURSIVE Join(_, _)
Join(parts, sep) ==
    At(LAMBDA ps : IF ps = <<>> THEN ""
                   ELSE IF Len(ps) = 1 THEN ps[1]
                   ELSE ps[1] \o sep \o Join(Tail(ps), sep), parts)

(***************************************************************************)
(* new URL(s): protocol, hostname, pathname, search, hash                  *)
(***************************************************************************)
AlphaNum == {LowerChars[k] : k \in 1..26} \cup {UpperChars[k] : k \in 1..26}
              \cup {"0","1","2","3","4","5","6","7","8","9"}

Digits == {"0","1","2","3","4","5","6","7","8","9"}

SchemeEnd(s) == IF Occurrences(s, "://") = {} THEN 0 ELSE Min(Occurrences(s, "://"))

InvalidUrl == [ok |-> FALSE, protocol |-> "", hostname |-> "", pathname |-> "",
               search |-> "", hash |-> ""]

ParseUrl(url) ==
    At(LAMBDA s :
        LET e == SchemeEnd(s)
        IN  IF e <= 1 \/ (\E i \in 1..(e - 1) : CharAt(s, i) \notin AlphaNum)
                 \/ (\E j \in 1..Len(s) : CharAt(s, j) \in Whitespace)
            THEN InvalidUrl
            ELSE
              LET hs  == e + 3
                  he  == IndexOfAny(s, {"/", "?", "#"}, hs)
                  qs  == IndexOfAny(s, {"?", "#"}, he)
                  fs  == IndexOfAny(s, {"#"}, he)
                  pth == SubSeq(s, he, qs - 1)
                  qry == IF qs <= Len(s) /\ CharAt(s, qs) = "?" THEN SubSeq(s, qs, fs - 1) ELSE ""
                  frg == SubSeq(s, fs, Len(s))
                  prt == IndexOfAny(s, {":"}, hs)
              IN  IF he = hs THEN InvalidUrl
                  ELSE IF \E i \in (prt + 1)..(he - 1) : CharAt(s, i) \notin Digits
                       THEN InvalidUrl                       \* a port that is no number
                  ELSE [ok       |-> TRUE,
                        protocol |-> toLowerCase(SubSeq(s, 1, e)),
                        hostname |-> toLowerCase(SubSeq(s, hs, he - 1)),
                        pathname |-> IF pth = "" THEN "/" ELSE pth,
                        search   |-> IF qry = "?" THEN "" ELSE qry,
                        hash     |-> IF frg = "#" THEN "" ELSE frg],
       url)

origin(u) == u.protocol \o "//" \o u.hostname

href(u) == origin(u) \o u.pathname \o u.search \o u.hash

\* URLSearchParams: the sequence of name=value pairs of the query
ParamPairs(search) ==
    IF search = "" THEN <<>>
    ELSE SelectSeq(Split(SubSeq(search, 2, Len(search)), "&"), LAMBDA p : p # "")

ParamName(pair) == SubSeq(pair, 1, IndexOfAny(pair, {"="}, 1) - 1)

ParamNames(search) ==
    At(LAMBDA pairs : {ParamName(pairs[i]) : i \in 1..Len(pairs)}, ParamPairs(search))

searchParamsHas(u, name) == name \in ParamNames(u.search)

searchParamsSize(u) == Len(ParamPairs(u.search))

\* application/x-www-form-urlencoded serialisation of one pair
SerializePair(pair) == IF Contains(pair, "=") THEN pair ELSE pair \o "="

\* a delete that removes the first pair of a name only
searchParamsDeleteAll_FirstOnly(search, D) ==
    At(LAMBDA pairs :
           At(LAMBDA kept :
                  IF kept = <<>> THEN ""
                  ELSE "?" \o Join([i \in 1..Len(kept) |-> SerializePair(pairs[kept[i]])], "&"),
              SelectSeq([i \in 1..Len(pairs) |-> i],
                        LAMBDA i : \/ ParamName(pairs[i]) \notin D
                                   \/ \E j \in 1..(i - 1) :
                                         ParamName(pairs[j]) = ParamName(pairs[i]))),
       ParamPairs(search))

\* searchParams.delete(name) for every name in D, followed by the update
\* of url.search that each delete performs
searchParamsDeleteAll(search, D) ==
    At(LAMBDA kept :
           IF kept = <<>> THEN ""
           ELSE "?" \o Join([i \in 1..Len(kept) |-> SerializePair(kept[i])], "&"),
       SelectSeq(ParamPairs(search), LAMBDA p : ParamName(p) \notin D))

\* s.replace(/\/$/, '')
StripTrailingSlash(s) == IF EndsWith(s, "/") THEN SubSeq(s, 1, Len(s) - 1) ELSE s

(***************************************************************************)
(* urlUtils.js                                                             *)
(***************************************************************************)
Null == "<null>"

isValidUrl(url) ==
    At(LAMBDA parsedUrl : parsedUrl.ok /\ parsedUrl.protocol \in {"http:", "https:"},
       ParseUrl(url))

normalizeUrl(inputUrl) ==
    At(LAMBDA url :
           IF ~url.ok THEN Null
           ELSE At(LAMBDA normalizedUrl :
                       IF ~isValidUrl(normalizedUrl) THEN Null ELSE normalizedUrl,
                   origin(url) \o StripTrailingSlash(url.pathname) \o url.search),
       ParseUrl(At(LAMBDA t : IF ~StartsWith(t, "http://") /\ ~StartsWith(t, "https://")
                              THEN "https://" \o t ELSE t,
                   trim(inputUrl))))

extractHostname(url) ==
    At(LAMBDA parsedUrl : IF parsedUrl.ok THEN parsedUrl.hostname ELSE Null, ParseUrl(url))

cleanTrackingParams == {"utm_source", "utm_medium", "utm_campaign", "utm_term",
                        "utm_content", "ref", "fbclid", "gclid", "pk_campaign",
                        "pk_kwd", "zanpid", "origin"}

cleanUrl(url) ==
    At(LAMBDA parsedUrl :
           IF ~parsedUrl.ok THEN url
           ELSE origin(parsedUrl) \o StripTrailingSlash(parsedUrl.pathname)
                    \o searchParamsDeleteAll(parsedUrl.search, cleanTrackingParams),
       ParseUrl(url))

\* path.extname(p).toLowerCase()
extname(p) ==
    At(LAMBDA base :
           At(LAMBDA d : IF d <= 1 THEN "" ELSE toLowerCase(SubSeq(base, d, Len(base))),
              LastIndexOf(base, ".")),
       SubSeq(p, LastIndexOf(p, "/") + 1, Len(p)))

(***************************************************************************)
(* smartUrlFilter.js: shouldVisitUrl.  The regular expressions carry the   *)
(* i flag and are tested against the raw url string, so every pattern is a *)
(* lower-case literal searched in toLowerCase(url); p$ is EndsWith.        *)
(***************************************************************************)
languageParams == {"hl", "lang", "locale", "l"}

authPatterns == {"/signin", "/login", "/register", "/signup", "/logout", "/account",
                 "/profile", "/dashboard", "/admin", "/_d/signin", "/sso"}
authPatternsEnd == {"/oauth"}

isAuthUrl(L) == ContainsAny(L, authPatterns) \/ EndsWithAny(L, authPatternsEnd)

docWords == {"doc", "guide", "tutorial", "example"}

isAuthDocumentation(L) ==
    \/ ContainsThen(L, {"/" \o w : w \in docWords}, {"auth"})
    \/ ContainsThen(L, {"/auth"}, docWords)
    \/ ContainsAny(L, {"/guide/auth/", "/guides/auth/"})

technicalPatternsEnd == {".css", ".js", ".json", ".xml", ".txt", ".pdf", ".zip", ".gz",
                         ".tar", ".png", ".jpg", ".jpeg", ".gif", ".svg", ".ico"}
technicalPatterns == {"/manifest.json", "/opensearch.xml", "/robots.txt", "/sitemap",
                      "/favicon", "/_pwa/", "/sw.js", "/service-worker"}

\* the technical rule placed behind the documentation patterns
isTechnical_UnlessDocumentation(L) ==
    /\ EndsWithAny(L, technicalPatternsEnd) \/ ContainsAny(L, technicalPatterns)
    /\ ~ContainsAny(L, {"/doc/", "/docs/", "/guide/", "/guides/"})

isTechnical(L) == EndsWithAny(L, technicalPatternsEnd) \/ ContainsAny(L, technicalPatterns)

nonContentPatterns == {"/newsletter", "/subscribe", "/unsubscribe", "/contact", "/about",
                       "/privacy", "/terms", "/legal", "/cookies", "/404", "/error",
                       "/maintenance", "/comingsoon", "/coming-soon",
                       "/underconstruction", "/under-construction", "/placeholder",
                       "/branding", "/press", "/media", "/careers", "/jobs", "/investor"}
nonContentPatternsEnd == {"/support", "/help", "/faq", "/search", "/demo", "/example",
                          "/test", "/playground", "/blog", "/news"}

isNonContent(L) == ContainsAny(L, nonContentPatterns) \/ EndsWithAny(L, nonContentPatternsEnd)

\* the minimum length of a keyword
minKeywordLength == 2

MaxParamCount == 5

trackingPatterns == {"/analytics", "/tracking", "/metrics", "/telemetry", "/events",
                     "/pixel", "/beacon", "/gtm", "/ga/", "/facebook", "/twitter",
                     "/linkedin", "/social", "/share", "/embed"}

filterTrackingParams == {"utm_source", "utm_medium", "utm_campaign", "utm_term",
                         "utm_content", "fbclid", "gclid", "msclkid", "igshid",
                         "ref", "referrer", "source", "campaign",
                         "tracking", "track", "campaign_id",
                         "affiliate", "partner", "promo",
                         "session", "sid", "token", "key",
                         "timestamp", "cache", "version", "v",
                         "continue", "redirect", "return", "next",
                         "prompt", "force", "reload"}

nonDocPatterns == {"/extras.css", "/globals.css", "/style/", "/styles/", "/asset/",
                   "/assets/", "/image/", "/images/", "/img/", "/static/", "/public/",
                   "/upload/", "/uploads/", "/download/", "/downloads/", "/file/",
                   "/files/", "/media/", "/resource/", "/resources/", "/font/",
                   "/fonts/", "/icon/", "/icons/", "/theme/", "/themes/", "/template/",
                   "/templates/", "/widget/", "/widgets/", "/plugin/", "/plugins/",
                   "/module/", "/modules/", "/component/", "/components/", "/partial/",
                   "/partials/", "/include/", "/includes/", "/vendor/",
                   "/node_modules/", "/bower_components/", "/package/", "/packages/",
                   "/lib/", "/libs/", "/dependencies/", "/third_party/",
                   "/third-party/", "/external/"}

viewParams == {"sort", "order", "view", "display", "layout",
               "page", "per_page", "limit", "offset",
               "filter", "category", "tag", "type",
               "format", "theme", "skin", "mode"}

\* every instead of some
hasKeywordInUrl_Every(L, keywords) ==
    \A k \in 1..Len(keywords) : Contains(L, toLowerCase(keywords[k]))

\* options.keywords.some(keyword => urlLower.includes(keyword.toLowerCase()))
hasKeywordInUrl(L, keywords) ==
    \E k \in 1..Len(keywords) : Contains(L, toLowerCase(keywords[k]))

docPatterns == {"/doc/", "/docs/", "/documentation", "/guide/", "/guides/",
                "/tutorial/", "/tutorials/", "/example/", "/examples/", "/sample/",
                "/samples/", "/reference", "/api/", "/sdk/", "/dev/", "/developer",
                "/manual", "/handbook", "/wiki", "/knowledge", "/learn", "/training",
                "/course", "/tutorial", "/howto", "/how_to", "/how-to",
                "/gettingstarted", "/getting_started", "/getting-started",
                "/quickstart", "/quick_start", "/quick-start", "/setup",
                "/installation", "/config", "/implementation", "/integration",
                "/usage", "/best_practices", "/best-practices", "/guidelines",
                "/standards", "/conventions", "/specification", "/spec", "/readme",
                "/changelog", "/releasenotes", "/release_notes", "/release-notes",
                "/migration", "/upgrade", "/troubleshoot", "/faq", "/help/",
                "/support/", "/guide/auth/", "/guides/auth/"}

contentPatterns == {"/article/", "/articles/", "/post/", "/posts/", "/blog/", "/news/",
                    "/announcement/", "/announcements/", "/update/", "/updates/",
                    "/release/", "/releases/", "/feature/", "/features/", "/product/",
                    "/products/", "/service/", "/services/", "/solution/",
                    "/solutions/", "/casestudie/", "/casestudies/", "/case_studie/",
                    "/case_studies/", "/case-studie/", "/case-studies/", "/storie/",
                    "/stories/", "/insight/", "/insights/", "/research/", "/paper/",
                    "/papers/", "/report/", "/reports/", "/whitepaper/",
                    "/whitepapers/", "/ebook/", "/ebooks/", "/presentation/",
                    "/presentations/", "/webinar/", "/webinars/", "/video/",
                    "/videos/", "/podcast/", "/podcasts/", "/recording/",
                    "/recordings/", "/demo/", "/demos/", "/sample/", "/samples/"}

\* urlObj.pathname.split('/').filter(part => part.length > 0)
pathParts(pathname) == SelectSeq(Split(pathname, "/"), LAMBDA part : part # "")

SegmentChars == {LowerChars[k] : k \in 1..26} \cup {"0","1","2","3","4","5","6","7","8","9","-"}

\* /^[a-z0-9-]+$/i
isPlainSegment(seg) == seg # "" /\ \A i \in 1..Len(seg) : CharAt(seg, i) \in SegmentChars

mainContentEnd == {"/index", "/home", "/main", "/overview", "/introduction", "/intro",
                   "/summary", "/details", "/info"}

\* mainContentIndicators, tested against the pathname
isMainContent(P) ==
    At(LAMBDA segs :
           \/ Len(segs) = 2 /\ segs[1] = "" /\ isPlainSegment(segs[2])
           \/ Len(segs) = 3 /\ segs[1] = "" /\ isPlainSegment(segs[2])
                                            /\ isPlainSegment(segs[3])
           \/ EndsWithAny(P, mainContentEnd)
           \/ Contains(P, "/about/"),
       Split(P, "/"))

MaxSimpleParts == 3
MaxUrlLength == 200
MaxReasonableParts == 5

\* the number of the RULE comment of shouldVisitUrl that returns, 0 for the
\* input validation and the catch block
filterRule(url, baseUrl, keywords) ==
  CHOOSE rule \in {
        IF trim(url) = "" \/ trim(baseUrl) = "" THEN 0
        ELSE IF ~urlObj.ok \/ ~baseObj.ok THEN 0
        ELSE IF urlObj.hostname # baseObj.hostname THEN 1
        ELSE IF \E p \in languageParams : searchParamsHas(urlObj, p) THEN 2
        ELSE IF isAuthUrl(L) /\ ~isAuthDocumentation(L) THEN 3
        ELSE IF isTechnical(L) THEN 4
        ELSE IF isNonContent(L) THEN 5
        ELSE IF searchParamsSize(urlObj) > MaxParamCount THEN 6
        ELSE IF ContainsAny(L, trackingPatterns) THEN 7
        ELSE IF \E p \in filterTrackingParams : searchParamsHas(urlObj, p) THEN 8
        ELSE IF ContainsAny(L, nonDocPatterns) THEN 9
        ELSE IF \E p \in viewParams : searchParamsHas(urlObj, p) THEN 10
        ELSE IF Len(keywords) > 0 /\ ~hasKeywordInUrl(L, keywords) THEN 11
        ELSE IF ContainsAny(L, docPatterns) THEN 12
        ELSE IF ContainsAny(L, contentPatterns) THEN 13
        ELSE IF Len(parts) <= MaxSimpleParts /\ urlObj.search = "" THEN 14
        ELSE IF isMainContent(P) THEN 15
        ELSE IF Len(url) < MaxUrlLength /\ Len(parts) <= MaxReasonableParts THEN 16
        ELSE 17
      : urlObj  \in {ParseUrl(url)},
        baseObj \in {ParseUrl(baseUrl)},
        L       \in {toLowerCase(url)},                     \* patterns carry the i flag
        parts   \in {pathParts(ParseUrl(url).pathname)},
        P       \in {toLowerCase(ParseUrl(url).pathname)} } : TRUE

\* the default of RULE 17 taken as an admission
admitRules_DefaultAdmit == {12, 13, 14, 15, 16, 17}

admitRules == {12, 13, 14, 15, 16}

shouldVisitUrl(url, baseUrl, keywords) == filterRule(url, baseUrl, keywords) \in admitRules

(***************************************************************************)
(* config.js                                                               *)
(***************************************************************************)
MAX_CONCURRENT_PAGES == 7

EXTENSIONS_TO_AVOID == <<".css", ".jpeg", ".jpg", ".png", ".js", ".gif", ".svg",
                         ".xml", ".json", ",mp3", ".mp4",
                         "zip", ".rar", ".tar", ".gz", ".mov", ".its">>

\* EXTENSIONS_TO_AVOID.map(ext => ext.startsWith('.') ? ext : `.${ext}`)
normalizedExtensionsToAvoid ==
    {IF StartsWith(EXTENSIONS_TO_AVOID[i], ".") THEN EXTENSIONS_TO_AVOID[i]
     ELSE "." \o EXTENSIONS_TO_AVOID[i] : i \in 1..Len(EXTENSIONS_TO_AVOID)}

\* nonHtmlPatterns of processUrl, tested against the cleaned URL
nonHtmlPatternsEnd == {"/manifest.json", "/opensearch.xml", "/robots.txt", "/feed", "/rss",
                       ".css", ".js", ".json", ".xml", ".txt", ".pdf", ".zip", ".gz",
                       ".tar", ".png", ".jpg", ".jpeg", ".gif", ".svg", ".ico"}
nonHtmlPatterns == {"/sitemap", "/favicon", "/api/"}

isNonHtml(cleanedUrl) ==
    LET L == toLowerCase(cleanedUrl)
    IN  EndsWithAny(L, nonHtmlPatternsEnd) \/ ContainsAny(L, nonHtmlPatterns)

\* the snapshot period of the then / catch callbacks of crawlWebsite
SAVE_EVERY == 10

(***************************************************************************)
(* The crawled site: what extractLinks returns for the page at each        *)
(* address (absolute hrefs), and the runs that are explored.               *)
(***************************************************************************)
Host == "https://docs.example.com"

pageLinks(address) ==
    CASE address = Host ->
           <<Host \o "/guide/a", Host \o "/style.css", Host \o "/login", "tel:+123">>
      [] address = Host \o "/guide/a" ->
           <<Host \o "/guide/b?origin=nav", Host \o "/guide/b", Host \o "/guide/a#top",
             Host \o "/", "https://other.org/x">>
      [] address = Host \o "/guide/b" ->
           <<Host \o "/guide/a/", Host \o "/guide/c?utm_source=y">>
      [] OTHER -> <<>>

MaxDepthBound == 2
MaxConcurrentBound == 2

Range(q) == {q[i] : i \in 1..Len(q)}

\* nine addresses visited by an earlier run, one short of a snapshot
OldVisited == {Host \o "/old/" \o d : d \in {"1","2","3","4","5","6","7","8","9"}}
OldUnique == <<Host \o "/old/1", Host \o "/old/2", Host \o "/old/3", Host \o "/old/4",
               Host \o "/old/5", Host \o "/old/6", Host \o "/old/7", Host \o "/old/8",
               Host \o "/old/9">>

DefaultOptions ==
    [startUrl |-> Host \o "/", maxDepth |-> 1, maxConcurrent |-> 2, keywords |-> <<>>,
     uniqueUrls |-> <<>>, visitedUrls |-> {}, outputFolder |-> "./pdfs",
     urlPersistence |-> FALSE, otherTabs |-> 1]

\* fresh runs from the site root, as main.js starts them (startUrl is URL.href)
FreshRuns ==
    {[DefaultOptions EXCEPT !.maxDepth = d, !.maxConcurrent = c] :
        d \in 0..MaxDepthBound, c \in 1..MaxConcurrentBound}

\* continuation runs: options.uniqueUrls / options.visitedUrls of an earlier run
ContinuationRuns ==
    {[DefaultOptions EXCEPT !.maxDepth = d, !.startUrl = s,
         !.uniqueUrls = <<Host, Host \o "/guide/a", Host \o "/guide/b">>,
         !.visitedUrls = {Host}] :
        d \in {0, MaxDepthBound}, s \in {Host \o "/", Host \o "/guide/a"}}
    \cup
    {[DefaultOptions EXCEPT !.maxDepth = MaxDepthBound, !.maxConcurrent = 1,
         !.uniqueUrls = <<Host, Host \o "/guide/a">>,
         !.visitedUrls = {Host, Host \o "/"}]}

\* a run with a persistence ledger, a browser whose tabs are all taken, a
\* browser with one tab left, a caller that passes no output folder, and a
\* run started at a page the filter rejects
OtherRuns ==
    {[DefaultOptions EXCEPT !.urlPersistence = TRUE, !.maxConcurrent = 1,
         !.uniqueUrls = OldUnique, !.visitedUrls = OldVisited],
     [DefaultOptions EXCEPT !.otherTabs = MAX_CONCURRENT_PAGES, !.maxDepth = 0],
     [DefaultOptions EXCEPT !.otherTabs = MAX_CONCURRENT_PAGES - 1],
     [DefaultOptions EXCEPT !.outputFolder = "", !.maxDepth = 0],
     [DefaultOptions EXCEPT !.startUrl = Host \o "/login", !.maxConcurrent = 1]}

Runs == FreshRuns \cup ContinuationRuns \cup OtherRuns

(***************************************************************************)
(* The strings the explored runs can meet, and the URL functions tabulated *)
(* over them (each table is the function of the same name, evaluated once) *)
(***************************************************************************)
Pages == {Host, Host \o "/guide/a", Host \o "/guide/b"}

\* links given to saveUniqueUrls by a caller other than processUrl
SinkLinks == {"https://x.com/a", "https://x.com/a/", "https://x.com/a//",
              "https://x.com/a?utm_source=y"}

GivenUrls ==
    {r.startUrl : r \in Runs} \cup SinkLinks
    \cup UNION {Range(r.uniqueUrls) \cup r.visitedUrls : r \in Runs}
    \cup UNION {Range(pageLinks(a)) : a \in Pages}

DerivedUrls(S) ==
    At(LAMBDA N : S \cup N \cup {cleanUrl(u) : u \in S \cup N},
       {normalizeUrl(u) : u \in S})

Universe == At(LAMBDA D : DerivedUrls(D), DerivedUrls(GivenUrls)) \cup {Null}

normalizeUrlOf == [u \in Universe |-> normalizeUrl(u)]
cleanUrlOf == [u \in Universe |-> cleanUrl(u)]
extractHostnameOf == [u \in Universe |-> extractHostname(u)]
extnameOf == [u \in Universe |-> extname(u)]
isNonHtmlOf == [u \in Universe |-> isNonHtml(u)]

\* shouldVisitUrl(url, baseUrl, {keywords}) for the base URL and keywords of a run
shouldVisitUrlOf ==
    [b \in {r.startUrl : r \in Runs} |->
        [k \in {r.keywords : r \in Runs} |->
            [u \in Universe |-> shouldVisitUrl(u, b, k)]]]

(***************************************************************************)
(* State of one crawlWebsite call                                          *)
(***************************************************************************)
VARIABLES
    opts,            \* startUrl and FINAL_OPTIONS
    pc,              \* position of crawlWebsite
    UNIQUE_URLS,
    VISITED_URLS,
    QUEUE,           \* sequence of [url, depth]
    activePromises,  \* the pending processUrl calls
    processedCount,
    nextId,          \* number of processUrl calls made so far
    outputFile,      \* lines of unique_urls.txt
    pendingSaves,    \* saveProcessedUrls calls that have not settled
    ledger,          \* the persisted record of the hostname
    renders,         \* history: page.goto calls per address
    succeeded,       \* history: addresses that loaded with content and a valid title
    popLog,          \* history: urls in the order QUEUE.shift() returned them
    verdicts,        \* history: [url, result] of every settled processUrl call
    savesStarted,    \* history: the totals of the periodic saveProcessedUrls calls made
    finalSaved,      \* history: "Final progress saved" was logged
    call,            \* a direct call of an exported function: arguments and results
    stopFlag         \* a flag of the caller of crawlWebsite, raised to ask for an early end

vars == <<opts, pc, UNIQUE_URLS, VISITED_URLS, QUEUE, activePromises, processedCount,
          nextId, outputFile, pendingSaves, ledger, renders, succeeded, popLog,
          verdicts, savesStarted, finalSaved, call, stopFlag>>

crawlVars == <<UNIQUE_URLS, VISITED_URLS, QUEUE, activePromises, processedCount>>
histVars == <<renders, succeeded, popLog, verdicts, savesStarted, finalSaved>>

\* FINAL_OPTIONS.baseUrl || startUrl; main.js passes the start URL as baseUrl
baseUrl == opts.startUrl

\* shouldVisitUrl(url, FINAL_OPTIONS.baseUrl || startUrl, filterOptions, logFilePath)
shouldVisit(url) == shouldVisitUrlOf[baseUrl][opts.keywords][url]

NoRecord == [processedUrls |-> {}, visitedUrls |-> {}, totalProcessed |-> 0]

(***************************************************************************)
(* Arguments and results of a direct call of an exported function          *)
(***************************************************************************)
\* JavaScript values by typeof; value is the string of a string
Str(s) == [type |-> "string", value |-> s]

undefined == [type |-> "undefined", value |-> ""]

\* the options argument: its own type, and its keywords property
Options(type, keywordsType, items) ==
    [type |-> type, keywords |-> [type |-> keywordsType, items |-> items]]

\* a property of the parsed record
Field(type, items, number) == [type |-> type, items |-> items, number |-> number]

\* the file of a hostname: state is missing, unreadable or readable; json is
\* what JSON.parse makes of the text
File(state, json, processedUrls, visitedUrls, totalProcessed) ==
    [state |-> state, json |-> json, processedUrls |-> processedUrls,
     visitedUrls |-> visitedUrls, totalProcessed |-> totalProcessed]

NoFile == File("missing", "", Field("undefined", {}, 0), Field("undefined", {}, 0),
               Field("undefined", {}, 0))

\* the content object of checkKeywordMatch: a missing text is "", headings
\* is an array or undefined
Content(url, title, metaDescription, headings, content) ==
    [url |-> url, title |-> title, metaDescription |-> metaDescription,
     headings |-> headings, content |-> content]

NoContent == Content("", "", "", [type |-> "undefined", items |-> <<>>], "")

\* the options object of checkKeywordMatch; a missing option is falsy
MatchOptions(areas, analyzeHeadings, caseSensitive, logicalAnd) ==
    [analyzeUrl |-> "url" \in areas, analyzeTitle |-> "title" \in areas,
     analyzeMetaDescription |-> "meta" \in areas, analyzeContent |-> "content" \in areas,
     analyzeHeadings |-> analyzeHeadings, caseSensitive |-> caseSensitive,
     logicalAnd |-> logicalAnd]

NoCall == [op |-> "none", url |-> undefined, baseUrl |-> undefined,
           options |-> Options("undefined", "undefined", <<>>), file |-> NoFile,
           param |-> "", processedUrls |-> {}, visitedUrls |-> {}, totalProcessed |-> 0,
           lines |-> <<>>,
           argv |-> <<>>,
           keywords |-> <<>>, content |-> NoContent,
           matchOptions |-> MatchOptions({}, FALSE, FALSE, FALSE),
           returned |-> <<>>]


Init ==
    /\ opts \in Runs
    /\ pc = "start"
    /\ UNIQUE_URLS = {}
    /\ VISITED_URLS = {}
    /\ QUEUE = <<>>
    /\ activePromises = {}
    /\ processedCount = 0
    /\ nextId = 0
    /\ outputFile = <<>>
    /\ pendingSaves = {}
    /\ ledger = NoRecord
    /\ renders = <<>>
    /\ succeeded = {}
    /\ popLog = <<>>
    /\ verdicts = {}
    /\ savesStarted = {}
    /\ finalSaved = FALSE
    /\ call = NoCall
    /\ stopFlag = FALSE

\* the Set built from options.uniqueUrls and normalizeUrl(startUrl), in
\* insertion order
InitialUnique ==
    At(LAMBDA normalizedStart :
           IF normalizedStart \in Range(opts.uniqueUrls) THEN opts.uniqueUrls
           ELSE Append(opts.uniqueUrls, normalizedStart),
       normalizeUrlOf[opts.startUrl])

\* the set-up without the filter on VISITED_URLS
ContinuationEntries_NoVisitedFilter ==
    At(LAMBDA added : [i \in 1..Len(added) |-> [url |-> added[i], depth |-> 1]],
       SelectSeq(InitialUnique, LAMBDA url : url # opts.startUrl))

\* the entries pushed behind the start URL by the continuation set-up
ContinuationEntries ==
    LET unvisitedUrls == SelectSeq(InitialUnique, LAMBDA url : url \notin opts.visitedUrls)
    IN  At(LAMBDA added : [i \in 1..Len(added) |-> [url |-> added[i], depth |-> 1]],
           SelectSeq(unvisitedUrls, LAMBDA url : url # opts.startUrl))

\* crawlWebsite up to the main loop
Start ==
    /\ pc = "start"
    /\ UNIQUE_URLS' = Range(InitialUnique)
    /\ VISITED_URLS' = opts.visitedUrls
    /\ QUEUE' = <<[url |-> opts.startUrl, depth |-> 0]>> \o ContinuationEntries
    /\ pc' = "dispatch"
    /\ UNCHANGED <<call, stopFlag, opts, activePromises, processedCount, nextId, outputFile,
                   pendingSaves, ledger, histVars>>

inflight == Cardinality(activePromises)

\* the inner loop condition written with <= for <
CanDispatch_OffByOne == inflight <= opts.maxConcurrent /\ Len(QUEUE) > 0

CanDispatch == inflight < opts.maxConcurrent /\ Len(QUEUE) > 0

\* the synchronous part of processUrl: the state of the promise it returns
processUrlCall(url, depth) ==
    LET t == [id |-> nextId + 1, url |-> url, depth |-> depth, at |-> "", address |-> "",
              page |-> FALSE, outcome |-> "", links |-> <<>>]
    IN  IF url \in VISITED_URLS THEN [t EXCEPT !.at = "resolved", !.outcome = "skipped"]
        ELSE IF opts.outputFolder = "" THEN [t EXCEPT !.at = "rejected", !.outcome = "contract"]
        ELSE [t EXCEPT !.at = "limit"]

\* the pass with QUEUE.pop() for QUEUE.shift()
Dispatch_Pop ==
    /\ pc = "dispatch"
    /\ CanDispatch
    /\ LET e == QUEUE[Len(QUEUE)]
       IN  /\ QUEUE' = SubSeq(QUEUE, 1, Len(QUEUE) - 1)
           /\ popLog' = Append(popLog, e.url)
           /\ IF e.url \in VISITED_URLS
              THEN UNCHANGED <<VISITED_URLS, activePromises, nextId>>
              ELSE IF ~shouldVisit(e.url)
              THEN /\ VISITED_URLS' = VISITED_URLS \cup {e.url}
                   /\ UNCHANGED <<activePromises, nextId>>
              ELSE /\ activePromises' = activePromises \cup {processUrlCall(e.url, e.depth)}
                   /\ nextId' = nextId + 1
                   /\ UNCHANGED VISITED_URLS
    /\ UNCHANGED <<call, stopFlag, opts, pc, UNIQUE_URLS, processedCount, outputFile, pendingSaves,
                   ledger, renders, succeeded, verdicts,
                   savesStarted, finalSaved>>

\* the pass without VISITED_URLS.add(url) for a URL the filter rejects
Dispatch_RejectedNotMarked ==
    /\ pc = "dispatch"
    /\ CanDispatch
    /\ LET e == Head(QUEUE)
       IN  /\ QUEUE' = Tail(QUEUE)
           /\ popLog' = Append(popLog, e.url)
           /\ IF e.url \in VISITED_URLS \/ ~shouldVisit(e.url)
              THEN UNCHANGED <<VISITED_URLS, activePromises, nextId>>
              ELSE /\ activePromises' = activePromises \cup {processUrlCall(e.url, e.depth)}
                   /\ nextId' = nextId + 1
                   /\ UNCHANGED VISITED_URLS
    /\ UNCHANGED <<call, stopFlag, opts, pc, UNIQUE_URLS, processedCount, outputFile, pendingSaves,
                   ledger, renders, succeeded, verdicts,
                   savesStarted, finalSaved>>

\* one pass of the inner while loop
Dispatch ==
    /\ pc = "dispatch"
    /\ CanDispatch
    /\ LET e == Head(QUEUE)
       IN  /\ QUEUE' = Tail(QUEUE)
           /\ popLog' = Append(popLog, e.url)
           /\ IF e.url \in VISITED_URLS
              THEN UNCHANGED <<VISITED_URLS, activePromises, nextId>>
              ELSE IF ~shouldVisit(e.url)
              THEN /\ VISITED_URLS' = VISITED_URLS \cup {e.url}
                   /\ UNCHANGED <<activePromises, nextId>>
              ELSE /\ activePromises' = activePromises \cup {processUrlCall(e.url, e.depth)}
                   /\ nextId' = nextId + 1
                   /\ UNCHANGED VISITED_URLS
    /\ UNCHANGED <<call, stopFlag, opts, pc, UNIQUE_URLS, processedCount, outputFile, pendingSaves,
                   ledger, renders, succeeded, verdicts,
                   savesStarted, finalSaved>>

\* tasks that hold one of the LIMIT slots
insideLimit == {t \in activePromises :
                  t.at \in {"tab", "newPage", "goto", "title", "links", "finally"}}

\* t has a job in the microtask queue: LIMIT is about to start its body, or
\* its promise has settled and the callback has not run yet
Ready(t) ==
    \/ t.at \in {"resolved", "rejected"}
    \/ t.at = "limit" /\ Cardinality(insideLimit) < MAX_CONCURRENT_PAGES

\* the microtask queue is empty: timers and I/O completions are delivered
Drained == \A t \in activePromises : ~Ready(t)

\* the inner loop ends; crawlWebsite awaits the 100 ms timer
Sleep ==
    /\ pc = "dispatch"
    /\ ~CanDispatch
    /\ pc' = "sleep"
    /\ UNCHANGED <<call, stopFlag, opts, crawlVars, nextId, outputFile, pendingSaves, ledger, histVars>>

\* the outer while condition written with >= for >
Wake_LoopForever ==
    /\ pc = "sleep"
    /\ Drained
    /\ pc' = IF Len(QUEUE) >= 0 \/ inflight > 0 THEN "dispatch" ELSE "final"
    /\ UNCHANGED <<call, stopFlag, opts, crawlVars, nextId, outputFile, pendingSaves, ledger, histVars>>

\* the outer while condition without activePromises.size
Wake_QueueOnly ==
    /\ pc = "sleep"
    /\ Drained
    /\ pc' = IF Len(QUEUE) > 0 THEN "dispatch" ELSE "final"
    /\ UNCHANGED <<call, stopFlag, opts, crawlVars, nextId, outputFile, pendingSaves, ledger, histVars>>

\* the timer fires and the outer while condition is evaluated
Wake ==
    /\ pc = "sleep"
    /\ Drained
    /\ pc' = IF Len(QUEUE) > 0 \/ inflight > 0 THEN "dispatch" ELSE "final"
    /\ UNCHANGED <<call, stopFlag, opts, crawlVars, nextId, outputFile, pendingSaves, ledger, histVars>>

(***************************************************************************)
(* processUrl: the body run under LIMIT.  A task moves only while          *)
(* crawlWebsite is suspended in an await; microtasks (the start of a body  *)
(* under LIMIT, the callbacks of a settled promise) run before any I/O     *)
(* completion or timer is delivered.                                       *)
(***************************************************************************)
Suspended == pc \in {"sleep", "finalSave"}

\* an I/O completion can be delivered
Idle == Suspended /\ Drained

Replace(t, t2) == (activePromises \ {t}) \cup {t2}

\* browser.pages() that are not closed
openTabs == opts.otherTabs + Cardinality({t \in activePromises : t.page})

\* the body navigating to the normalized URL instead of the cleaned one
TaskStart_UncleanedAddress ==
    /\ Suspended
    /\ Cardinality(insideLimit) < MAX_CONCURRENT_PAGES
    /\ \E t \in activePromises :
        /\ t.at = "limit"
        /\ \E normalizedUrl \in {normalizeUrlOf[t.url]} :
           \E cleanedUrl \in {cleanUrlOf[normalizedUrl]} :
             LET skip ==
                   \/ normalizedUrl = Null
                   \/ extractHostnameOf[normalizedUrl] = Null
                   \/ extractHostnameOf[baseUrl] = Null
                   \/ cleanedUrl \in VISITED_URLS
                   \/ extnameOf[cleanedUrl] \in normalizedExtensionsToAvoid
                   \/ isNonHtmlOf[cleanedUrl]
             IN  activePromises' = Replace(t,
                   IF skip THEN [t EXCEPT !.at = "resolved", !.outcome = "skipped"]
                   ELSE [t EXCEPT !.at = "tab", !.address = normalizedUrl])
    /\ UNCHANGED <<call, stopFlag, opts, pc, UNIQUE_URLS, VISITED_URLS, QUEUE, processedCount, nextId,
                   outputFile, pendingSaves, ledger, histVars>>

\* LIMIT starts the body: normalisation and the checks before the try block
TaskStart ==
    /\ Suspended
    /\ Cardinality(insideLimit) < MAX_CONCURRENT_PAGES
    /\ \E t \in activePromises :
        /\ t.at = "limit"
        /\ \E normalizedUrl \in {normalizeUrlOf[t.url]} :
           \E cleanedUrl \in {cleanUrlOf[normalizedUrl]} :
             LET skip ==
                   \/ normalizedUrl = Null
                   \/ extractHostnameOf[normalizedUrl] = Null
                   \/ extractHostnameOf[baseUrl] = Null
                   \/ cleanedUrl \in VISITED_URLS
                   \/ extnameOf[cleanedUrl] \in normalizedExtensionsToAvoid
                   \/ isNonHtmlOf[cleanedUrl]
             IN  activePromises' = Replace(t,
                   IF skip THEN [t EXCEPT !.at = "resolved", !.outcome = "skipped"]
                   ELSE [t EXCEPT !.at = "tab", !.address = cleanedUrl])
    /\ UNCHANGED <<call, stopFlag, opts, pc, UNIQUE_URLS, VISITED_URLS, QUEUE, processedCount, nextId,
                   outputFile, pendingSaves, ledger, histVars>>

\* waitForAvailableTab returns: fewer than MAX_TABS tabs are open
TaskTabFree ==
    /\ Idle
    /\ \E t \in activePromises :
        /\ t.at = "tab"
        /\ openTabs < MAX_CONCURRENT_PAGES
        /\ activePromises' = Replace(t, [t EXCEPT !.at = "newPage"])
    /\ UNCHANGED <<call, stopFlag, opts, pc, UNIQUE_URLS, VISITED_URLS, QUEUE, processedCount, nextId,
                   outputFile, pendingSaves, ledger, histVars>>

\* waitForAvailableTab throws after MAX_WAIT_TIME; the catch block logs it
TaskTabTimeout ==
    /\ Idle
    /\ \E t \in activePromises :
        /\ t.at = "tab"
        /\ openTabs >= MAX_CONCURRENT_PAGES
        /\ activePromises' = Replace(t, [t EXCEPT !.at = "finally", !.outcome = "noTab"])
    /\ UNCHANGED <<call, stopFlag, opts, pc, UNIQUE_URLS, VISITED_URLS, QUEUE, processedCount, nextId,
                   outputFile, pendingSaves, ledger, histVars>>

\* browser.newPage() and configureBrowserPage
TaskNewPage ==
    /\ Idle
    /\ \E t \in activePromises :
        /\ t.at = "newPage"
        /\ activePromises' = Replace(t, [t EXCEPT !.at = "goto", !.page = TRUE])
    /\ UNCHANGED <<call, stopFlag, opts, pc, UNIQUE_URLS, VISITED_URLS, QUEUE, processedCount, nextId,
                   outputFile, pendingSaves, ledger, histVars>>

\* errors thrown by page.goto and classified by the catch block
ThrownOutcomes == {"timeout", "dns", "refused", "ssl", "unknown"}
\* the early returns after page.goto
ReturnedOutcomes == {"noResponse", "httpError", "empty"}

Count(f, k) == IF k \in DOMAIN f THEN f[k] ELSE 0

\* page.goto(cleanedUrl) up to visitedUrls.add(cleanedUrl)
TaskGoto ==
    /\ Idle
    /\ \E t \in activePromises :
        /\ t.at = "goto"
        /\ renders' = [a \in DOMAIN renders \cup {t.address} |->
                          IF a = t.address THEN Count(renders, a) + 1 ELSE renders[a]]
        /\ \/ \E o \in ThrownOutcomes \cup ReturnedOutcomes :
                /\ activePromises' = Replace(t, [t EXCEPT !.at = "finally", !.outcome = o])
                /\ UNCHANGED VISITED_URLS
           \/ /\ activePromises' = Replace(t, [t EXCEPT !.at = "title"])
              /\ VISITED_URLS' = VISITED_URLS \cup {t.address}
    /\ UNCHANGED <<call, stopFlag, opts, pc, UNIQUE_URLS, QUEUE, processedCount, nextId,
                   outputFile, pendingSaves, ledger, succeeded, popLog, verdicts,
                   savesStarted, finalSaved>>

\* saveUniqueUrls(links, outputFilePath): the lines of the file afterwards
RECURSIVE saveUniqueUrls(_, _)
saveUniqueUrls(links, lines) ==
    IF links = <<>> THEN lines
    ELSE At(LAMBDA cleanedLink :
                saveUniqueUrls(Tail(links),
                    IF cleanedLink # "" /\ cleanedLink \notin Range(lines)
                    THEN Append(lines, cleanedLink) ELSE lines),
            cleanUrlOf[Head(links)])

\* the save moved in front of the title check
titleBranch_SaveFirst(t, hasValidTitle) ==
    [file |-> saveUniqueUrls(<<t.address>>, outputFile),
     task |-> IF hasValidTitle THEN [t EXCEPT !.at = "links"]
              ELSE [t EXCEPT !.at = "finally", !.outcome = "badTitle"]]

\* page.title() and the hasValidTitle branch: the file and the task afterwards
titleBranch(t, hasValidTitle) ==
    IF hasValidTitle
    THEN [file |-> saveUniqueUrls(<<t.address>>, outputFile),
          task |-> [t EXCEPT !.at = "links"]]
    ELSE [file |-> outputFile,
          task |-> [t EXCEPT !.at = "finally", !.outcome = "badTitle"]]

TaskTitle ==
    /\ Idle
    /\ \E t \in activePromises : \E hasValidTitle \in BOOLEAN :
        /\ t.at = "title"
        /\ \E after \in {titleBranch(t, hasValidTitle)} :
            /\ outputFile' = after.file
            /\ activePromises' = Replace(t, after.task)
        /\ succeeded' = IF hasValidTitle THEN succeeded \cup {t.address} ELSE succeeded
    /\ UNCHANGED <<call, stopFlag, opts, pc, UNIQUE_URLS, VISITED_URLS, QUEUE, processedCount, nextId,
                   pendingSaves, ledger, renders, popLog, verdicts,
                   savesStarted, finalSaved>>

\* pageLinks.map(normalizeUrl).filter(...) of processUrl
\* the link filter without the comparison of hostnames
filterLinks_AnyHost(links, visitedUrls) ==
    LET isValid(link) ==
            /\ link # Null
            /\ At(LAMBDA cleanedLink : cleanedLink # "" /\ cleanedLink \notin visitedUrls,
                  cleanUrlOf[link])
    IN  At(LAMBDA normalized : SelectSeq(normalized, isValid),
           [i \in 1..Len(links) |-> normalizeUrlOf[links[i]]])

filterLinks(links, visitedUrls) ==
    LET isValid(link) ==
            /\ link # Null
            /\ At(LAMBDA cleanedLink :
                      /\ cleanedLink # ""
                      /\ extractHostnameOf[cleanedLink] = extractHostnameOf[baseUrl]
                      /\ cleanedLink \notin visitedUrls,
                  cleanUrlOf[link])
    IN  At(LAMBDA normalized : SelectSeq(normalized, isValid),
           [i \in 1..Len(links) |-> normalizeUrlOf[links[i]]])

\* extractLinks and the link filter
TaskLinks ==
    /\ Idle
    /\ \E t \in activePromises :
        /\ t.at = "links"
        /\ activePromises' = Replace(t,
               [t EXCEPT !.at = "finally", !.outcome = "ok",
                         !.links = filterLinks(pageLinks(t.address), VISITED_URLS)])
    /\ UNCHANGED <<call, stopFlag, opts, pc, UNIQUE_URLS, VISITED_URLS, QUEUE, processedCount, nextId,
                   outputFile, pendingSaves, ledger, histVars>>

\* the page closed at the end of the try block instead of in a finally block
TaskFinally_OnSuccessOnly ==
    /\ Idle
    /\ \E t \in activePromises :
        /\ t.at = "finally"
        /\ activePromises' = Replace(t, [t EXCEPT !.at = "resolved",
                                                  !.page = IF t.outcome = "ok" THEN FALSE ELSE @])
    /\ UNCHANGED <<call, stopFlag, opts, pc, UNIQUE_URLS, VISITED_URLS, QUEUE, processedCount, nextId,
                   outputFile, pendingSaves, ledger, histVars>>

\* the finally block (page.close) and the return of discoveredLinks
TaskFinally ==
    /\ Idle
    /\ \E t \in activePromises :
        /\ t.at = "finally"
        /\ activePromises' = Replace(t, [t EXCEPT !.at = "resolved", !.page = FALSE])
    /\ UNCHANGED <<call, stopFlag, opts, pc, UNIQUE_URLS, VISITED_URLS, QUEUE, processedCount, nextId,
                   outputFile, pendingSaves, ledger, histVars>>

(***************************************************************************)
(* crawlWebsite: the callbacks of the processUrl promise                   *)
(***************************************************************************)
\* the forEach without the test of depth + 1 against maxDepth
RECURSIVE enqueueLinks_AnyDepth(_, _, _, _)
enqueueLinks_AnyDepth(links, depth, unique, queue) ==
    At(LAMBDA s :
           IF links = <<>> THEN s
           ELSE LET link == Head(links)
                IN  IF link \notin s.unique /\ shouldVisit(link)
                    THEN enqueueLinks_AnyDepth(Tail(links), depth, s.unique \cup {link},
                                      Append(s.queue, [url |-> link, depth |-> depth + 1]))
                    ELSE enqueueLinks_AnyDepth(Tail(links), depth, s.unique, s.queue),
       [unique |-> unique, queue |-> queue])

\* discoveredLinks.forEach(...): the Unique set and the queue afterwards
RECURSIVE enqueueLinks(_, _, _, _)
enqueueLinks(links, depth, unique, queue) ==
    At(LAMBDA s :
           IF links = <<>> THEN s
           ELSE LET link == Head(links)
                IN  IF link \notin s.unique /\ depth + 1 <= opts.maxDepth
                       /\ shouldVisit(link)
                    THEN enqueueLinks(Tail(links), depth, s.unique \cup {link},
                                      Append(s.queue, [url |-> link, depth |-> depth + 1]))
                    ELSE enqueueLinks(Tail(links), depth, s.unique, s.queue),
       [unique |-> unique, queue |-> queue])

\* urlPersistence.saveProcessedUrls(hostname, UNIQUE_URLS, VISITED_URLS, VISITED_URLS.size)
\* when the snapshot condition holds for the visited set v
saveCall(v, final) ==
    [stage |-> "ensure", final |-> final, total |-> Cardinality(v), data |-> NoRecord]

periodicSave(v) ==
    IF opts.urlPersistence /\ Cardinality(v) % SAVE_EVERY = 0
    THEN pendingSaves \cup {saveCall(v, FALSE)}
    ELSE pendingSaves

\* the cleaned URL of the render marked visited for the URL of the queue entry
visitedAfter_Address(t) == VISITED_URLS \cup {t.address}

\* the URL marked visited only when its links were returned
visitedAfter_OnSuccessOnly(t) ==
    IF t.outcome = "ok" THEN VISITED_URLS \cup {t.url} ELSE VISITED_URLS

\* the Visited set rebuilt from the URLs of the tasks still in flight
visitedAfter_InFlightOnly(t) == {a.url : a \in activePromises}

\* VISITED_URLS.add(url) of both callbacks
visitedAfter(t) == VISITED_URLS \cup {t.url}

\* activePromises.delete(promise) of both callbacks
deletePromise(t) == activePromises \ {t}

verdict(t) ==
    [url |-> t.url,
     result |-> IF t.outcome = "ok" THEN "ok"
                ELSE IF t.outcome = "skipped" THEN "skipped" ELSE "failed"]

\* .then(discoveredLinks => ...)
Then ==
    /\ Suspended
    /\ \E t \in activePromises :
        /\ t.at = "resolved"
        /\ \E r \in {enqueueLinks(t.links, t.depth, UNIQUE_URLS, QUEUE)} :
               /\ UNIQUE_URLS' = r.unique
               /\ QUEUE' = r.queue
        /\ VISITED_URLS' = visitedAfter(t)
        /\ processedCount' = processedCount + 1
        /\ pendingSaves' = periodicSave(VISITED_URLS')
        /\ activePromises' = deletePromise(t)
        /\ verdicts' = verdicts \cup {verdict(t)}
        /\ savesStarted' = IF opts.urlPersistence
                              /\ Cardinality(VISITED_URLS') % SAVE_EVERY = 0
                           THEN savesStarted \cup {Cardinality(VISITED_URLS')}
                           ELSE savesStarted
    /\ UNCHANGED <<call, stopFlag, opts, pc, nextId, outputFile, ledger, renders, succeeded, popLog, finalSaved>>

\* .catch(error => ...)
Catch ==
    /\ Suspended
    /\ \E t \in activePromises :
        /\ t.at = "rejected"
        /\ VISITED_URLS' = visitedAfter(t)
        /\ processedCount' = processedCount + 1
        /\ pendingSaves' = periodicSave(VISITED_URLS')
        /\ activePromises' = deletePromise(t)
        /\ verdicts' = verdicts \cup {verdict(t)}
        /\ savesStarted' = IF opts.urlPersistence
                              /\ Cardinality(VISITED_URLS') % SAVE_EVERY = 0
                           THEN savesStarted \cup {Cardinality(VISITED_URLS')}
                           ELSE savesStarted
    /\ UNCHANGED <<call, stopFlag, opts, pc, UNIQUE_URLS, QUEUE, nextId, outputFile, ledger, renders,
                   succeeded, popLog, finalSaved>>

(***************************************************************************)
(* URLPersistence.saveProcessedUrls (autoScroll.js, lines 114-126)         *)
(***************************************************************************)
\* ensurePersistenceDir has resolved: the arrays are built from the sets
SaveSnapshot ==
    /\ Idle
    /\ \E sv \in pendingSaves :
        /\ sv.stage = "ensure"
        /\ pendingSaves' = (pendingSaves \ {sv}) \cup
               {[sv EXCEPT !.stage = "write",
                           !.data = [processedUrls  |-> UNIQUE_URLS,
                                     visitedUrls    |-> VISITED_URLS,
                                     totalProcessed |-> IF sv.total # 0 THEN sv.total
                                                        ELSE Cardinality(UNIQUE_URLS)]]}
    /\ UNCHANGED <<call, stopFlag, opts, pc, crawlVars, nextId, outputFile, ledger, histVars>>

\* fs.writeFile has resolved
SaveWrite ==
    /\ Idle
    /\ \E sv \in pendingSaves :
        /\ sv.stage = "write"
        /\ ledger' = sv.data
        /\ pendingSaves' = pendingSaves \ {sv}
        /\ finalSaved' = (finalSaved \/ sv.final)
    /\ UNCHANGED <<call, stopFlag, opts, pc, crawlVars, nextId, outputFile, renders, succeeded,
                   popLog, verdicts, savesStarted>>

\* a rejection that is not caught and ends crawlWebsite
SaveFail_Rethrown ==
    /\ Idle
    /\ \E sv \in pendingSaves : pendingSaves' = pendingSaves \ {sv}
    /\ pc' = "done"
    /\ UNCHANGED <<call, stopFlag, opts, crawlVars, nextId, outputFile, ledger, histVars>>

\* mkdir or writeFile has failed: the caller logs the rejection
SaveFail ==
    /\ Idle
    /\ \E sv \in pendingSaves : pendingSaves' = pendingSaves \ {sv}
    /\ UNCHANGED <<call, stopFlag, opts, pc, crawlVars, nextId, outputFile, ledger, histVars>>

\* after the loop: the final save is started and awaited
Final ==
    /\ pc = "final"
    /\ IF opts.urlPersistence
       THEN /\ pendingSaves' = pendingSaves \cup {saveCall(VISITED_URLS, TRUE)}
            /\ pc' = "finalSave"
       ELSE /\ pc' = "done"
            /\ UNCHANGED pendingSaves
    /\ UNCHANGED <<call, stopFlag, opts, crawlVars, nextId, outputFile, ledger, histVars>>

\* the awaited final save has settled; crawlWebsite returns
Return ==
    /\ pc = "finalSave"
    /\ ~\E sv \in pendingSaves : sv.final
    /\ pc' = "done"
    /\ UNCHANGED <<call, stopFlag, opts, crawlVars, nextId, outputFile, pendingSaves, ledger, histVars>>

\* the caller of crawlWebsite raises its flag while crawlWebsite awaits the
\* timer; crawlWebsite has no parameter and no import through which it could
\* read such a flag, and no step of it does
RequestStop ==
    /\ pc = "sleep"
    /\ ~stopFlag
    /\ stopFlag' = TRUE
    /\ UNCHANGED <<call, opts, pc, crawlVars, nextId, outputFile, pendingSaves, ledger,
                   histVars>>

Next ==
    \/ Start \/ Dispatch \/ Sleep \/ Wake \/ RequestStop
    \/ TaskStart \/ TaskTabFree \/ TaskTabTimeout \/ TaskNewPage \/ TaskGoto
    \/ TaskTitle \/ TaskLinks \/ TaskFinally
    \/ Then \/ Catch
    \/ SaveSnapshot \/ SaveWrite \/ SaveFail
    \/ Final \/ Return

Spec == Init /\ [][Next]_vars

\* crawlWebsite's own steps, and the callbacks the event loop runs while it is
\* suspended: continuations of the render tasks and file-system completions
Main == Start \/ Dispatch \/ Sleep \/ Wake \/ Final \/ Return
Work ==
    \/ TaskStart \/ TaskTabFree \/ TaskTabTimeout \/ TaskNewPage \/ TaskGoto
    \/ TaskTitle \/ TaskLinks \/ TaskFinally \/ Then \/ Catch
    \/ SaveSnapshot \/ SaveWrite \/ SaveFail

\* crawlWebsite keeps running, and a callback that is ready whenever
\* crawlWebsite is suspended is eventually run (renders complete)
Fairness == WF_vars(Main) /\ SF_vars(Work)

FairSpec == Spec /\ Fairness

TypeOK ==
    /\ pc \in {"start", "dispatch", "sleep", "final", "finalSave", "done"}
    /\ inflight <= opts.maxConcurrent

\* what the caller of a function gets: a returned value, or a thrown error
Returns(value) == [threw |-> FALSE, value |-> value]

Throws == [threw |-> TRUE, value |-> FALSE]

\* options.keywords.some(keyword => urlLower.includes(keyword.toLowerCase()))
\* over JavaScript values: toLowerCase is a method of strings only, and some
\* stops at the first keyword found
RECURSIVE someKeyword(_, _)
someKeyword(L, items) ==
    IF items = <<>> THEN "false"
    ELSE IF Head(items).type # "string" THEN "TypeError"
    ELSE IF Contains(L, toLowerCase(Head(items).value)) THEN "true"
    ELSE someKeyword(L, Tail(items))

\* a filter that also looks into VISITED_URLS
shouldVisitUrlAny_SkipsVisited(url, base, options) ==
    IF url.type # "string" \/ base.type # "string" \/ options.type = "null"
          \/ options.keywords.type # "array"
          \/ \E k \in 1..Len(options.keywords.items) :
                options.keywords.items[k].type # "string"
    THEN Returns(FALSE)
    ELSE Returns(/\ url.value \notin VISITED_URLS
                 /\ shouldVisitUrl(url.value, base.value,
                        [k \in 1..Len(options.keywords.items) |->
                             options.keywords.items[k].value]))

\* shouldVisitUrl whose errors reach the caller
shouldVisitUrlAny_NoCatch(url, base, options) ==
    IF url.type # "string" \/ trim(url.value) = "" THEN Returns(FALSE)
    ELSE IF base.type # "string" \/ trim(base.value) = "" THEN Returns(FALSE)
    ELSE IF ~ParseUrl(url.value).ok \/ ~ParseUrl(base.value).ok THEN Throws
    ELSE IF options.type # "null" /\ options.keywords.type # "array"
         THEN Returns(shouldVisitUrl(url.value, base.value, <<>>))
    ELSE IF options.type # "null"
            /\ \A k \in 1..Len(options.keywords.items) :
                   options.keywords.items[k].type = "string"
         THEN Returns(shouldVisitUrl(url.value, base.value,
                         [k \in 1..Len(options.keywords.items) |->
                              options.keywords.items[k].value]))
    ELSE At(LAMBDA rule :
                IF rule \in 0..10 THEN Returns(FALSE)
                ELSE IF options.type = "null" THEN Throws
                ELSE At(LAMBDA found :
                            IF found = "TypeError" THEN Throws
                            ELSE IF found = "false" THEN Returns(FALSE)
                            ELSE Returns(rule \in admitRules),
                        someKeyword(toLowerCase(url.value), options.keywords.items)),
            filterRule(url.value, base.value, <<>>))

\* shouldVisitUrl(url, baseUrl, options) for arguments of any type: the input
\* validation, the try block (the rules up to 10 return before options is
\* read) and the catch block
shouldVisitUrlAny(url, base, options) ==
    IF url.type # "string" \/ trim(url.value) = "" THEN Returns(FALSE)
    ELSE IF base.type # "string" \/ trim(base.value) = "" THEN Returns(FALSE)
    ELSE IF options.type # "null" /\ options.keywords.type # "array"
         THEN Returns(shouldVisitUrl(url.value, base.value, <<>>))
    ELSE IF options.type # "null"
            /\ \A k \in 1..Len(options.keywords.items) :
                   options.keywords.items[k].type = "string"
         THEN Returns(shouldVisitUrl(url.value, base.value,
                         [k \in 1..Len(options.keywords.items) |->
                              options.keywords.items[k].value]))
    ELSE At(LAMBDA rule :
                IF rule \in 0..10 THEN Returns(FALSE)
                ELSE IF options.type = "null" THEN Returns(FALSE)
                ELSE At(LAMBDA found :
                            IF found = "TypeError" THEN Returns(FALSE)
                            ELSE IF found = "false" THEN Returns(FALSE)
                            ELSE Returns(rule \in admitRules),
                        someKeyword(toLowerCase(url.value), options.keywords.items)),
            filterRule(url.value, base.value, <<>>))


(***************************************************************************)
(* autoScroll.js: URLPersistence.loadProcessedUrls                         *)
(***************************************************************************)
\* new Set(value || []): items is what iterating the value yields; a number
\* other than 0 is not iterable
notIterable(field) == field.type = "number" /\ field.number # 0

setOf(field) == IF field.type \in {"undefined", "null", "number"} THEN {} ELSE field.items

\* loadProcessedUrls whose errors reach the caller
loadProcessedUrls_NoCatch(file) ==
    IF file.state # "readable" THEN Throws
    ELSE IF file.json \in {"SyntaxError", "null"} THEN Throws
    ELSE IF file.json # "object" THEN Returns(NoRecord)
    ELSE IF notIterable(file.processedUrls) \/ notIterable(file.visitedUrls)
         THEN Throws
    ELSE Returns([processedUrls  |-> setOf(file.processedUrls),
                  visitedUrls    |-> setOf(file.visitedUrls),
                  totalProcessed |-> file.totalProcessed.number])

\* readFile rejects for a missing or unreadable file, JSON.parse throws for a
\* text that is no JSON, reading a property of null throws, a value of another
\* type than object has none of the properties; every error ends in the catch
\* block
loadProcessedUrls(file) ==
    IF file.state # "readable" THEN Returns(NoRecord)
    ELSE IF file.json \in {"SyntaxError", "null"} THEN Returns(NoRecord)
    ELSE IF file.json # "object" THEN Returns(NoRecord)
    ELSE IF notIterable(file.processedUrls) \/ notIterable(file.visitedUrls)
         THEN Returns(NoRecord)
    ELSE Returns([processedUrls  |-> setOf(file.processedUrls),
                  visitedUrls    |-> setOf(file.visitedUrls),
                  totalProcessed |-> file.totalProcessed.number])


\* a save that adds to the record the file holds
saveProcessedUrls_Merge(file, processedUrls, visitedUrls, totalProcessed) ==
    File("readable", "object",
         Field("array", processedUrls \cup setOf(file.processedUrls), 0),
         Field("array", visitedUrls \cup setOf(file.visitedUrls), 0),
         Field("number", {}, IF totalProcessed # 0 THEN totalProcessed
                             ELSE Cardinality(processedUrls)))

\* the file after saveProcessedUrls: JSON.stringify of Array.from of both sets
\* and of totalProcessed || processedUrls.size, written over the file
saveProcessedUrls(file, processedUrls, visitedUrls, totalProcessed) ==
    File("readable", "object",
         Field("array", processedUrls, 0),
         Field("array", visitedUrls, 0),
         Field("number", {}, IF totalProcessed # 0 THEN totalProcessed
                             ELSE Cardinality(processedUrls)))

(***************************************************************************)
(* Direct calls of the exported functions: the arguments are drawn from    *)
(* the sets below, each action is one call                                 *)
(***************************************************************************)
OtherHost == "https://x.com"

\* URLs given to normalizeUrl: with and without scheme, paths that end in no,
\* one or several slashes, queries with and without tracking parameters,
\* fragments, and strings that are not http(s) URLs
UrlArguments ==
    {h \o p \o q \o f :
        h \in {Host, OtherHost, "x.com"},
        p \in {"", "/", "/a", "/a/", "/a//", "/a///", "/guide/a"},
        q \in {"", "?utm_source=y", "?q=1", "?q=1&ref=z"},
        f \in {"", "#top"}}
    \cup {"", " https://x.com/a ", "https://", "ftp://x.com/a"}

UrlCalls == {[NoCall EXCEPT !.op = "url", !.url = Str(u)] : u \in UrlArguments}

\* URLs given to shouldVisitUrl: for every RULE of the function a path or a
\* query that it decides, on the host of the base URL and on another host
FilterPaths ==
    {"", "/docs/start", "/DOCS/Start", "/docs/components/button", "/api/ref", "/about",
     "/login", "/docs/login", "/docs/auth/login", "/docs/style.css", "/analytics/docs/",
     "/blog/post-1", "/pricing", "/a/b/c/overview", "/a/b/c/d", "/a/b/c/d/e/f"}

FilterQueries ==
    {"", "?hl=de", "?page=2", "?utm_source=y", "?q=1", "?a=1&b=2&c=3&d=4&e=5&f=6"}

FilterUrls ==
    {h \o p \o q : h \in {OtherHost, Host}, p \in FilterPaths, q \in FilterQueries}
    \cup {"", "  ", "not a url", "/docs/start"}

FilterBases == {OtherHost \o "/docs", Host \o "/", "not a url"}

\* a site whose hostname, and links whose query string, hold the text of a
\* pattern of RULES 3, 4, 5 and 7
PatternHost == "https://admin.example.com"

PatternUrls ==
    {PatternHost \o "/docs/start", PatternHost \o "/docs/start?q=1",
     Host \o "/docs/start?next=/login", Host \o "/docs/start?file=style.css",
     Host \o "/docs/start?from=/about", Host \o "/docs/start?src=/share"}

\* { keywords } and the default {}
Keywords(strings) ==
    Options("object", "array", [k \in 1..Len(strings) |-> Str(strings[k])])

FilterOptions ==
    {Options("undefined", "undefined", <<>>), Keywords(<<>>), Keywords(<<"api">>),
     Keywords(<<"Guide", "DOCS">>)}

\* the cases of test_smart_filtering.js
TestBase == "https://developers.google.com/youtube/v3/guides/auth/server-side-web-apps"

TestUrls ==
    {TestBase \o "?hl=de",
     "https://developers.google.com/_pwa/developers/manifest.json",
     "https://developers.google.com/s/opensearch.xml",
     "https://developers.google.com/extras.css",
     "https://developers.google.com/_d/signin?continue=https%3A%2F%2Fdevelopers.google.com%2Fyoutube%2Fv3%2Fguides%2Fauth%2Fserver-side-web-apps&prompt=select_account",
     TestBase,
     "https://developers.google.com/youtube/v3/getting-started",
     "https://developers.google.com/youtube/v3/docs",
     "https://developers.google.com/youtube/v3/quickstart/python"}

\* arguments of other types than the documented ones
OtherValues == {undefined, [type |-> "object", value |-> ""], [type |-> "number", value |-> ""]}

OtherOptions ==
    {Options("null", "undefined", <<>>),
     Options("object", "string", <<>>),
     Options("object", "array", <<[type |-> "number", value |-> ""]>>),
     Options("object", "array", <<Str("docs"), [type |-> "object", value |-> ""]>>),
     Options("object", "array", <<undefined, Str("docs")>>)}

FilterCalls ==
    {[NoCall EXCEPT !.op = "filter", !.url = Str(u), !.baseUrl = Str(b), !.options = o] :
        u \in FilterUrls, b \in FilterBases, o \in FilterOptions}
    \cup
    {[NoCall EXCEPT !.op = "filter", !.url = Str(u), !.baseUrl = Str(b),
                    !.options = Keywords(<<>>)] :
        u \in PatternUrls, b \in {PatternHost \o "/", Host \o "/"}}
    \cup
    {[NoCall EXCEPT !.op = "filter", !.url = Str(u), !.baseUrl = Str(TestBase),
                    !.options = Keywords(<<"youtube/v3">>)] : u \in TestUrls}
    \cup
    {[NoCall EXCEPT !.op = "filter", !.url = u, !.baseUrl = b, !.options = o] :
        u \in OtherValues \cup {Str(OtherHost \o "/docs/start"), Str(OtherHost \o "/login")},
        b \in OtherValues \cup {Str(OtherHost \o "/docs")},
        o \in OtherOptions \cup {Keywords(<<"api">>)}}

\* the values a property of the record can have: absent, null, an array, a
\* number, a string (iterated by character)
UrlFields ==
    {Field("undefined", {}, 0), Field("null", {}, 0), Field("array", {}, 0),
     Field("array", {Host, Host \o "/guide/a"}, 0), Field("number", {}, 0),
     Field("number", {}, 1), Field("string", {"a", "b"}, 0)}

CountFields == {Field("undefined", {}, 0), Field("number", {}, 0), Field("number", {}, 2)}

\* no file, a file that cannot be read, a text that is no JSON, JSON that is
\* no object, and objects
Files ==
    {File(s, "", Field("undefined", {}, 0), Field("undefined", {}, 0),
          Field("undefined", {}, 0)) : s \in {"missing", "unreadable"}}
    \cup
    {File("readable", j, Field("undefined", {}, 0), Field("undefined", {}, 0),
          Field("undefined", {}, 0)) : j \in {"SyntaxError", "null", "number", "array"}}
    \cup
    {File("readable", "object", p, v, t) :
        p \in UrlFields, v \in UrlFields, t \in CountFields}

LoadCalls == {[NoCall EXCEPT !.op = "load", !.file = f] : f \in Files}

\* saveProcessedUrls(hostname, processedUrls, visitedUrls, totalProcessed) over
\* a file that is missing, is no JSON, or holds an earlier record
SavedSets == {{}, {Host}, {Host \o "/guide/a", Host \o "/guide/b"}}

SaveCalls ==
    {[NoCall EXCEPT !.op = "save", !.file = f, !.processedUrls = U, !.visitedUrls = V,
                    !.totalProcessed = n] :
        f \in {g \in Files : \/ g.json # "object"
                              \/ /\ g.visitedUrls.type \in {"undefined", "array"}
                                 /\ g.totalProcessed.type = "number"},
        U \in SavedSets, V \in SavedSets, n \in {0, 1, 2}}

\* saveUniqueUrls(links, outputFilePath) with no output file yet
SinkCalls == {[NoCall EXCEPT !.op = "saveUniqueUrls"]}

(***************************************************************************)
(* main.js: the command line, up to the exit of the process                *)
(***************************************************************************)
\* what can go wrong after the arguments were read
Startups == {"ok", "mkdirThrows", "launchThrows", "crawlThrows"}

\* the exit code of the process, and whether puppeteer.launch and
\* crawlWebsite were called, for process.argv.slice(2) = argv
main(argv, startup) ==
    IF Len(argv) < 1
    THEN [exitCode |-> 1, browser |-> FALSE, crawl |-> FALSE]        \* usage message
    ELSE At(LAMBDA ACTUAL_URL :
                IF ~ACTUAL_URL.ok \/ startup = "mkdirThrows"
                THEN [exitCode |-> 1, browser |-> FALSE, crawl |-> FALSE]
                ELSE IF startup = "launchThrows"
                THEN [exitCode |-> 1, browser |-> FALSE, crawl |-> FALSE]
                ELSE [exitCode |-> IF startup = "crawlThrows" THEN 1 ELSE 0,
                      browser |-> TRUE, crawl |-> TRUE],
            ParseUrl(argv[1]))

\* command lines: no argument, arguments that new URL rejects, URLs of
\* another scheme, and http(s) URLs with and without keywords
CommandLines ==
    {<<>>, <<"">>, <<"docs.example.com">>, <<"docs.example.com", "api">>, <<"https://">>,
     <<"ftp://x.com/a">>, <<"ws://x.com/a", "api">>, <<"https://x.com">>,
     <<"http://x.com/a", "api">>, <<Host, "api", "guide">>}

MainCalls == {[NoCall EXCEPT !.op = "argv", !.argv = a] : a \in CommandLines}

(***************************************************************************)
(* keywordFilter.js: checkKeywordMatch, with options.exactMatch false      *)
(***************************************************************************)
textContainsKeyword(text, keyword, options) ==
    IF text = "" THEN FALSE
    ELSE IF options.caseSensitive THEN Contains(text, keyword)
    ELSE Contains(toLowerCase(text), toLowerCase(keyword))

\* keywordFound after the five checks of one keyword
keywordFound(keyword, content, options) ==
    \/ options.analyzeUrl /\ textContainsKeyword(content.url, keyword, options)
    \/ options.analyzeTitle /\ textContainsKeyword(content.title, keyword, options)
    \/ options.analyzeMetaDescription
          /\ textContainsKeyword(content.metaDescription, keyword, options)
    \/ options.analyzeHeadings
          /\ \E i \in 1..Len(content.headings.items) :
                textContainsKeyword(content.headings.items[i], keyword, options)
    \/ options.analyzeContent /\ textContainsKeyword(content.content, keyword, options)

\* [...new Set(list)]
RECURSIVE withoutDuplicates(_)
withoutDuplicates(list) ==
    IF list = <<>> THEN <<>>
    ELSE At(LAMBDA front : IF list[Len(list)] \in Range(front) THEN front
                           ELSE Append(front, list[Len(list)]),
            withoutDuplicates(SubSeq(list, 1, Len(list) - 1)))

checkKeywordMatch(keywords, content, options) ==
    IF Len(keywords) = 0 THEN Returns([matches |-> TRUE, foundKeywords |-> <<>>])
    ELSE IF options.analyzeHeadings /\ content.headings.type # "array"
    THEN Throws                        \* for (const heading of undefined)
    ELSE At(LAMBDA foundKeywords :
                Returns([matches |-> IF options.logicalAnd
                                     THEN Len(foundKeywords) = Len(keywords)
                                     ELSE Len(foundKeywords) > 0,
                         foundKeywords |-> withoutDuplicates(foundKeywords)]),
            SelectSeq(keywords, LAMBDA keyword : keywordFound(keyword, content, options)))

\* the keywords, contents and options of the tests of checkKeywordMatch
TestKeywords ==
    {<<>>, <<"test">>, <<"missing">>, <<"">>, <<"a">>, <<"<script>">>, <<"javascript:">>,
     <<"test", "page">>, <<"test", "missing">>, <<"test", "test">>, <<"api", "documentation">>}

TestContents ==
    {Content("", "Test", "", [type |-> "undefined", items |-> <<>>], ""),
     Content("", "Test Page", "", [type |-> "undefined", items |-> <<>>], ""),
     Content("https://example.com/api/docs", "API Documentation",
             "Complete API reference and guides",
             [type |-> "array", items |-> <<"Getting Started", "API Reference">>],
             "This is the main documentation for our REST API"),
     Content("https://example.com/test", "", "", [type |-> "array", items |-> <<"Page">>],
             "")}

TestMatchOptions ==
    {MatchOptions(areas, analyzeHeadings, caseSensitive, logicalAnd) :
        areas \in {{"url", "title"}, {"title"}, {"url"}, {}, {"url", "title", "meta", "content"}},
        analyzeHeadings \in BOOLEAN, caseSensitive \in BOOLEAN, logicalAnd \in BOOLEAN}

MatchCalls ==
    {[NoCall EXCEPT !.op = "match", !.keywords = k, !.content = c, !.matchOptions = o] :
        k \in TestKeywords, c \in TestContents, o \in TestMatchOptions}

\* no crawl is running while the functions are called directly
NoCrawl ==
    /\ opts = DefaultOptions
    /\ pc = "start"
    /\ UNIQUE_URLS = {}
    /\ VISITED_URLS = {}
    /\ QUEUE = <<>>
    /\ activePromises = {}
    /\ processedCount = 0
    /\ nextId = 0
    /\ outputFile = <<>>
    /\ pendingSaves = {}
    /\ ledger = NoRecord
    /\ renders = <<>>
    /\ succeeded = {}
    /\ popLog = <<>>
    /\ verdicts = {}
    /\ savesStarted = {}
    /\ finalSaved = FALSE
    /\ stopFlag = FALSE

crawlState == <<opts, pc, UNIQUE_URLS, VISITED_URLS, QUEUE, activePromises,
                processedCount, nextId, outputFile, pendingSaves, ledger, renders,
                succeeded, popLog, verdicts, savesStarted, finalSaved, stopFlag>>

\* normalizeUrl(url)
CallNormalizeUrl ==
    /\ call.op = "url"
    /\ call' = [call EXCEPT !.op = "normalizeUrl",
                            !.returned = <<normalizeUrl(call.url.value)>>]
    /\ UNCHANGED crawlState

\* normalizeUrl(normalizeUrl(url))
CallNormalizeUrlAgain ==
    /\ call.op = "normalizeUrl"
    /\ call.returned[1] # Null
    /\ call' = [call EXCEPT !.op = "normalizeUrlAgain",
                            !.returned = Append(@, normalizeUrl(call.returned[1]))]
    /\ UNCHANGED crawlState

\* cleanUrl(normalizeUrl(url)): the string VISITED_URLS is asked about
CallCleanUrl ==
    /\ call.op = "normalizeUrl"
    /\ call.returned[1] # Null
    /\ call' = [call EXCEPT !.op = "cleanUrl",
                            !.returned = <<cleanUrl(call.returned[1])>>]
    /\ UNCHANGED crawlState

\* cleanUrl(normalizeUrl(.)) of that string
CallCleanUrlAgain ==
    /\ call.op = "cleanUrl"
    /\ \E normalizedUrl \in {normalizeUrl(call.returned[1])} :
          /\ normalizedUrl # Null
          /\ call' = [call EXCEPT !.op = "cleanUrlAgain",
                                  !.returned = Append(@, cleanUrl(normalizedUrl))]
    /\ UNCHANGED crawlState

\* cleanUrl(normalizeUrl(.)) of the URL with the parameter param=y added to
\* its query
CallCleanUrlWithParam ==
    /\ call.op = "cleanUrl"
    /\ \E param \in cleanTrackingParams :
          LET url == trim(call.url.value)
              h   == IndexOfAny(url, {"#"}, 1)
              sep == IF IndexOfAny(url, {"?"}, 1) < h THEN "&" ELSE "?"
              withParam == SubSeq(url, 1, h - 1) \o sep \o param \o "=y"
                              \o SubSeq(url, h, Len(url))
          IN  \E normalizedUrl \in {normalizeUrl(withParam)} :
                 /\ normalizedUrl # Null
                 /\ call' = [call EXCEPT !.op = "cleanUrlWithParam", !.param = param,
                                         !.returned = Append(@, cleanUrl(normalizedUrl))]
    /\ UNCHANGED crawlState

\* shouldVisitUrl(url, baseUrl, options)
CallShouldVisitUrl ==
    /\ call.op = "filter"
    /\ call' = [call EXCEPT !.op = "shouldVisitUrl",
                   !.returned = <<shouldVisitUrlAny(call.url, call.baseUrl, call.options)>>]
    /\ UNCHANGED crawlState

\* between two calls with the same arguments: a call with other arguments,
\* whose result is dropped
CallShouldVisitUrlOther ==
    /\ call.op = "shouldVisitUrl"
    /\ call.param = ""
    /\ \E other \in {shouldVisitUrlAny(call.baseUrl, call.baseUrl, call.options)} :
          call' = [call EXCEPT !.param = "other call"]
    /\ UNCHANGED crawlState

\* between two calls with the same arguments: the crawl adds the URL to
\* UNIQUE_URLS and VISITED_URLS and takes it from QUEUE
CrawlBetweenCalls ==
    /\ call.op = "shouldVisitUrl"
    /\ call.url.type = "string"
    /\ UNIQUE_URLS = {}
    /\ UNIQUE_URLS' = {call.url.value}
    /\ VISITED_URLS' = {call.url.value}
    /\ QUEUE' = <<[url |-> call.baseUrl.value, depth |-> 1]>>
    /\ UNCHANGED <<call, stopFlag, opts, pc, activePromises, processedCount, nextId, outputFile,
                   pendingSaves, ledger, renders, succeeded, popLog, verdicts,
                   savesStarted, finalSaved>>

\* the same call once more
CallShouldVisitUrlAgain ==
    /\ call.op = "shouldVisitUrl"
    /\ call' = [call EXCEPT !.op = "shouldVisitUrlAgain",
                   !.returned = Append(@, shouldVisitUrlAny(call.url, call.baseUrl,
                                                            call.options))]
    /\ UNCHANGED crawlState

\* the call with the same url and baseUrl and { keywords: [] }
CallShouldVisitUrlNoKeywords ==
    /\ call.op = "shouldVisitUrl"
    /\ call.param = ""
    /\ UNIQUE_URLS = {}
    /\ call' = [call EXCEPT !.op = "shouldVisitUrlNoKeywords",
                   !.returned = Append(@, shouldVisitUrlAny(call.url, call.baseUrl,
                                                            Keywords(<<>>)))]
    /\ UNCHANGED crawlState

\* urlPersistence.loadProcessedUrls(hostname)
CallLoadProcessedUrls ==
    /\ call.op \in {"load", "saveProcessedUrls"}
    /\ call' = [call EXCEPT !.op = IF call.op = "load" THEN "loadProcessedUrls"
                                   ELSE "loadAfterSave",
                            !.returned = Append(@, loadProcessedUrls(call.file))]
    /\ UNCHANGED crawlState

\* urlPersistence.saveProcessedUrls(hostname, processedUrls, visitedUrls,
\* totalProcessed) resolves
CallSaveProcessedUrls ==
    /\ call.op = "save"
    /\ call' = [call EXCEPT !.op = "saveProcessedUrls",
                   !.file = saveProcessedUrls(call.file, call.processedUrls,
                                              call.visitedUrls, call.totalProcessed),
                   !.returned = <<Returns(undefined)>>]
    /\ UNCHANGED crawlState

\* mkdir or writeFile rejects: the file is as before, or holds a part of the
\* text
CallSaveProcessedUrlsFails ==
    /\ call.op = "save"
    /\ \E written \in {call.file, [call.file EXCEPT !.state = "readable",
                                                   !.json = "SyntaxError"]} :
          call' = [call EXCEPT !.op = "saveProcessedUrlsFailed", !.file = written,
                               !.returned = <<Throws>>]
    /\ UNCHANGED crawlState

\* saveUniqueUrls(links, outputFilePath) for one or two links
CallSaveUniqueUrls ==
    /\ call.op = "saveUniqueUrls"
    /\ \E links \in {<<u>> : u \in SinkLinks} \cup {<<u, v>> : u, v \in SinkLinks} :
          call' = [call EXCEPT !.lines = saveUniqueUrls(links, call.lines)]
    /\ UNCHANGED crawlState

\* node main.js argv
CallMain ==
    /\ call.op = "argv"
    /\ \E startup \in Startups :
          call' = [call EXCEPT !.op = "main", !.returned = <<main(call.argv, startup)>>]
    /\ UNCHANGED crawlState

\* checkKeywordMatch(keywords, content, options, logFilePath)
CallCheckKeywordMatch ==
    /\ call.op = "match"
    /\ call' = [call EXCEPT !.op = "checkKeywordMatch",
                            !.returned = <<checkKeywordMatch(call.keywords, call.content,
                                                             call.matchOptions)>>]
    /\ UNCHANGED crawlState

(***************************************************************************)
(* URLPersistence.updateProcessedUrls (autoScroll.js, lines 207-220):      *)
(* calls for one hostname that overlap.  call.file is the file of the      *)
(* hostname, pendingSaves the calls in flight, call.processedUrls and      *)
(* call.visitedUrls the URLs of the prior record and of every call made.   *)
(***************************************************************************)
\* the prior file: none, or a well-formed record
UpdateCalls ==
    {[NoCall EXCEPT !.op = "updates", !.file = f,
                    !.processedUrls = setOf(f.processedUrls),
                    !.visitedUrls = setOf(f.visitedUrls)] :
        f \in {g \in Files : \/ g.state = "missing"
                              \/ /\ g.json = "object"
                                 /\ g.processedUrls.type = "array"
                                 /\ g.visitedUrls.type = "array"
                                 /\ g.totalProcessed.type = "number"}}

\* newUrls and newVisitedUrls of one call
UpdateArguments ==
    {[newUrls |-> {u}, newVisitedUrls |-> {u}] : u \in {Host \o "/guide/b", Host \o "/api/ref"}}
    \cup {[newUrls |-> {Host \o "/guide/b"}, newVisitedUrls |-> {}]}

notCalled == <<opts, pc, UNIQUE_URLS, VISITED_URLS, QUEUE, activePromises, processedCount,
               nextId, outputFile, ledger, histVars, stopFlag>>

\* updateProcessedUrls(hostname, newUrls, newVisitedUrls) is called and awaits
\* loadProcessedUrls
CallUpdateProcessedUrls ==
    /\ call.op = "updates"
    /\ \E a \in UpdateArguments :
        /\ pendingSaves' = pendingSaves \cup
               {[stage |-> "load", final |-> FALSE, total |-> 0,
                 data |-> [processedUrls |-> a.newUrls, visitedUrls |-> a.newVisitedUrls,
                           totalProcessed |-> 0]]}
        /\ call' = [call EXCEPT !.processedUrls = @ \cup a.newUrls,
                                !.visitedUrls = @ \cup a.newVisitedUrls]
    /\ UNCHANGED notCalled

\* loadProcessedUrls has resolved: the new URLs are added to the sets it
\* returned and saveProcessedUrls is called with them
UpdateLoaded ==
    /\ call.op = "updates"
    /\ \E sv \in pendingSaves :
        /\ sv.stage = "load"
        /\ \E existingData \in {loadProcessedUrls(call.file).value} :
              pendingSaves' = (pendingSaves \ {sv}) \cup
                 {[sv EXCEPT !.stage = "write",
                      !.total = Cardinality(existingData.processedUrls
                                               \cup sv.data.processedUrls),
                      !.data = [processedUrls  |-> existingData.processedUrls
                                                      \cup sv.data.processedUrls,
                                visitedUrls    |-> existingData.visitedUrls
                                                      \cup sv.data.visitedUrls,
                                totalProcessed |-> Cardinality(existingData.processedUrls
                                                      \cup sv.data.processedUrls)]]}
    /\ UNCHANGED <<call, notCalled>>

\* fs.writeFile of the saveProcessedUrls call has resolved, and with it
\* updateProcessedUrls
UpdateSaved ==
    /\ call.op = "updates"
    /\ \E sv \in pendingSaves :
        /\ sv.stage = "write"
        /\ call' = [call EXCEPT !.file = saveProcessedUrls(call.file, sv.data.processedUrls,
                                                          sv.data.visitedUrls, sv.total),
                                !.returned = <<Returns(undefined)>>]
        /\ pendingSaves' = pendingSaves \ {sv}
    /\ UNCHANGED notCalled

CallInit ==
    /\ NoCrawl
    /\ call \in UrlCalls \cup FilterCalls \cup LoadCalls \cup SaveCalls
                 \cup SinkCalls \cup MainCalls \cup MatchCalls \cup UpdateCalls

CallNext ==
    \/ CallNormalizeUrl \/ CallNormalizeUrlAgain
    \/ CallCleanUrl \/ CallCleanUrlAgain \/ CallCleanUrlWithParam
    \/ CallShouldVisitUrl \/ CallShouldVisitUrlOther \/ CrawlBetweenCalls
    \/ CallShouldVisitUrlAgain \/ CallShouldVisitUrlNoKeywords
    \/ CallLoadProcessedUrls \/ CallSaveProcessedUrls \/ CallSaveProcessedUrlsFails
    \/ CallSaveUniqueUrls \/ CallMain \/ CallCheckKeywordMatch
    \/ CallUpdateProcessedUrls \/ UpdateLoaded \/ UpdateSaved

CallSpec == CallInit /\ [][CallNext]_vars

(***************************************************************************)
(* Properties of the scheduler                                             *)
(***************************************************************************)

\* C1: in any run every canonical URL is rendered (page.goto) at most once,
\* and no two members of Visited have the same canonical form.
C1_RenderedAtMostOnce ==
    /\ \A a \in DOMAIN renders : renders[a] <= 1
    /\ \A u, v \in VISITED_URLS :
          cleanUrlOf[normalizeUrlOf[u]] = cleanUrlOf[normalizeUrlOf[v]] => u = v

\* C3: at every point of a run the number of pending processUrl calls is at
\* most maxConcurrent.
C3_InflightBounded == inflight <= opts.maxConcurrent

\* C3 witness: maxConcurrent = 2 renders are pending and a queued URL waits
C3_SlotsFull ==
    /\ opts.maxConcurrent = 2
    /\ inflight = 2
    /\ Len(QUEUE) > 0
    /\ \A t \in activePromises : t.at = "goto"

\* C4: no URL is dispatched (handed to processUrl) at a depth greater than
\* maxDepth, in fresh and continuation runs, maxDepth = 0 included.
C4_DepthBounded == \A t \in activePromises : t.depth <= opts.maxDepth

\* C6: in a run that starts with Visited inside Unique, every member of
\* Visited is a member of Unique or a URL the filter rejects.
C6_VisitedInUnique ==
    opts.visitedUrls \subseteq Range(opts.uniqueUrls) =>
        \A v \in VISITED_URLS : v \in UNIQUE_URLS \/ ~shouldVisit(v)

\* C2: when every render and every file operation eventually completes, the
\* loop ends with an empty queue and nothing in flight, and crawlWebsite returns.
C2_Terminates == <>(pc = "done" /\ QUEUE = <<>> /\ activePromises = {})

\* C2 witness: crawlWebsite has returned after at least three processUrl calls
C2_Returned == pc = "done" /\ Len(QUEUE) = 0 /\ inflight = 0 /\ nextId >= 3

\* C5: when a processUrl call that did not end in success settles, it carries
\* no links, its URL is in Visited afterwards, Unique and the queue are as
\* before, and one slot fewer is taken.
C5_FailureMarksVisited ==
    [][\A t \in activePromises :
          (/\ t.at \in {"resolved", "rejected"}
           /\ t.outcome \notin {"ok", "skipped"}
           /\ ~\E t2 \in activePromises' : t2.id = t.id)
          => /\ t.links = <<>>
             /\ t.url \in VISITED_URLS'
             /\ UNIQUE_URLS' = UNIQUE_URLS
             /\ QUEUE' = QUEUE
             /\ Cardinality(activePromises') = inflight - 1]_vars

\* C5 witness: with one slot, a URL whose render failed is in Visited and the
\* next queue entry has been dispatched
C5_FailedThenNext ==
    /\ opts.maxConcurrent = 1
    /\ \E v \in verdicts : v.result = "failed" /\ v.url \in VISITED_URLS
    /\ \E t \in activePromises : t.at = "goto"

\* C8: every line of the output file is the address of a page that loaded
\* with content and a valid title, and only a call that ended in success
\* carries links.
C8_SaveOnlyOnSuccess ==
    /\ Range(outputFile) \subseteq succeeded
    /\ \A t \in activePromises :
          t.links # <<>> => t.outcome = "ok" /\ t.address \in succeeded

\* C8 witness: at the end one rendered address is saved and another, whose
\* render did not succeed, is not
C8_SavedAndUnsaved ==
    /\ pc = "done"
    /\ Len(outputFile) >= 1
    /\ \E a \in DOMAIN renders : a \notin succeeded /\ a \notin Range(outputFile)

C9_Scenario ==
    (/\ opts = DefaultOptions
     /\ pc = "done"
     /\ \A v \in verdicts : v.result # "failed")
    => /\ shouldVisit(Host \o "/guide/a")
       /\ ~shouldVisit(Host \o "/style.css")
       /\ ~shouldVisit(Host \o "/login")
       /\ UNIQUE_URLS = {Host, Host \o "/guide/a"}
       /\ \E seed \in {Host, Host \o "/"} : VISITED_URLS = {seed, Host \o "/guide/a"}

\* C10: every URL that link discovery adds to Unique is in cleaned form (the
\* tracking parameters of cleanUrl removed), and no two of them have the same
\* cleaned form; likewise the queue.
C10_DiscoveredAreCleaned ==
    LET discovered == UNIQUE_URLS \ (Range(opts.uniqueUrls) \cup {normalizeUrlOf[opts.startUrl]})
    IN  /\ \A u \in discovered : cleanUrlOf[u] = u
        /\ \A u, v \in discovered : cleanUrlOf[u] = cleanUrlOf[v] => u = v
        /\ \A i, j \in 1..Len(QUEUE) :
              (QUEUE[i].depth > 1 /\ QUEUE[j].depth > 1
               /\ cleanUrlOf[QUEUE[i].url] = cleanUrlOf[QUEUE[j].url]) => i = j

(***************************************************************************)
(* Properties of the URL functions                                         *)
(***************************************************************************)

\* C11: canonicalisation is idempotent: normalizing a normalized URL returns
\* it unchanged, also for paths that end in one or several slashes, and
\* cleanUrl(normalizeUrl(.)) applied to its own result returns it unchanged.
C11_Idempotent ==
    /\ call.op = "normalizeUrlAgain" => call.returned[2] = call.returned[1]
    /\ call.op = "cleanUrlAgain" => call.returned[2] = call.returned[1]

\* C12: the canonical form does not change when a tracking parameter of the
\* clean list is added to the URL.
C12_TrackingParamInvariant ==
    call.op = "cleanUrlWithParam" => call.returned[2] = call.returned[1]

\* https://x.com/a and https://x.com/a?utm_source=y, and a URL that keeps
\* another parameter
C12_ParamAdded ==
    /\ call.op = "cleanUrlWithParam"
    /\ call.url.value = OtherHost \o "/a?q=1#top"
    /\ call.param = "utm_source"
    /\ call.returned = <<OtherHost \o "/a?q=1", OtherHost \o "/a?q=1">>

(***************************************************************************)
(* Properties of the admission filter                                      *)
(***************************************************************************)

C14_KeywordGate ==
    (/\ call.op = "shouldVisitUrlNoKeywords"
     /\ call.options.type # "null"
     /\ \A k \in 1..Len(call.options.keywords.items) :
            call.options.keywords.items[k].type = "string")
    => LET L        == toLowerCase(call.url.value)
           keywords == call.options.keywords.items
       IN  /\ call.returned[1].value
              = (/\ call.returned[2].value
                 /\ \/ keywords = <<>>
                    \/ \E k \in 1..Len(keywords) :
                          Contains(L, toLowerCase(keywords[k].value)))
           /\ (/\ call.options = Keywords(<<"api">>)
               /\ call.baseUrl.value = OtherHost \o "/docs")
              => /\ call.url.value = OtherHost \o "/api/ref" => call.returned[1].value
                 /\ call.url.value = OtherHost \o "/about" => ~call.returned[1].value

\* a URL that holds the second keyword in another case has been admitted,
\* with and without the keywords
C14_SecondKeywordFound ==
    /\ call.op = "shouldVisitUrlNoKeywords"
    /\ call.url.value = OtherHost \o "/docs/start"
    /\ call.options = Keywords(<<"Guide", "DOCS">>)
    /\ call.returned = <<Returns(TRUE), Returns(TRUE)>>

\* C15: a same-host URL that carries a localization parameter, is an auth URL
\* without the auth-documentation exception, or is a technical file is
\* rejected, also when it contains a keyword and matches a documentation
\* pattern; an auth URL with the auth-documentation exception is rejected
\* only for another reason.  The cases of test_smart_filtering.js come out as
\* the test expects.
C15_RejectsFirst ==
    (/\ call.op = "shouldVisitUrl"
     /\ call.url.type = "string" /\ call.baseUrl.type = "string"
     /\ call.options.type # "null"
     /\ \A k \in 1..Len(call.options.keywords.items) :
            call.options.keywords.items[k].type = "string"
     /\ ParseUrl(call.url.value).ok /\ ParseUrl(call.baseUrl.value).ok
     /\ ParseUrl(call.url.value).hostname = ParseUrl(call.baseUrl.value).hostname)
    => LET url      == call.url.value
           L        == toLowerCase(url)
           urlObj   == ParseUrl(url)
           parts    == pathParts(urlObj.pathname)
           keywords == call.options.keywords.items
           value    == call.returned[1].value
       IN  /\ (\E p \in languageParams : searchParamsHas(urlObj, p)) => ~value
           /\ (isAuthUrl(L) /\ ~isAuthDocumentation(L)) => ~value
           /\ (EndsWithAny(L, technicalPatternsEnd) \/ ContainsAny(L, technicalPatterns))
                 => ~value
           /\ (isAuthUrl(L) /\ isAuthDocumentation(L) /\ ~value)
                 => \/ \E p \in languageParams : searchParamsHas(urlObj, p)
                    \/ isTechnical(L) \/ isNonContent(L)
                    \/ searchParamsSize(urlObj) > MaxParamCount
                    \/ ContainsAny(L, trackingPatterns)
                    \/ \E p \in filterTrackingParams \cup viewParams : searchParamsHas(urlObj, p)
                    \/ ContainsAny(L, nonDocPatterns)
                    \/ /\ keywords # <<>>
                       /\ \A k \in 1..Len(keywords) : ~Contains(L, toLowerCase(keywords[k].value))
                    \/ /\ ~ContainsAny(L, docPatterns \cup contentPatterns)
                       /\ ~(Len(parts) <= MaxSimpleParts /\ urlObj.search = "")
                       /\ ~isMainContent(toLowerCase(urlObj.pathname))
                       /\ ~(Len(url) < MaxUrlLength /\ Len(parts) <= MaxReasonableParts)
           /\ (call.baseUrl.value = TestBase /\ url \in TestUrls)
                 => value = (url \in {TestBase,
                                      "https://developers.google.com/youtube/v3/getting-started",
                                      "https://developers.google.com/youtube/v3/docs",
                                      "https://developers.google.com/youtube/v3/quickstart/python"})

\* a stylesheet below /docs/ that holds a keyword has been rejected
C15_TechnicalWithKeywordRejected ==
    /\ call.op = "shouldVisitUrl"
    /\ call.url.value = OtherHost \o "/docs/style.css"
    /\ call.baseUrl.value = OtherHost \o "/docs"
    /\ call.options = Keywords(<<"Guide", "DOCS">>)
    /\ call.returned = <<Returns(FALSE)>>

C18_SameSite ==
    LET sameSite(u) ==
            /\ u # Null
            /\ extractHostnameOf[u] # Null
            /\ extractHostnameOf[u] = extractHostnameOf[opts.startUrl]
    IN  /\ \A a \in DOMAIN renders : sameSite(a)
        /\ \A t \in activePromises : \A i \in 1..Len(t.links) : sameSite(t.links[i])
        /\ \A u \in UNIQUE_URLS :
              u \in Range(opts.uniqueUrls) \/ u = normalizeUrlOf[opts.startUrl] \/ sameSite(u)

\* the page that links to another site has been rendered and its links have
\* been enqueued, and so has the page with a link that has no hostname
C18_ForeignLinkDropped ==
    /\ \E v \in verdicts : v.url = Host \o "/guide/a" /\ v.result = "ok"
    /\ \E v \in verdicts : v.url = Host \o "/" /\ v.result = "ok"
    /\ Host \o "/guide/b" \in UNIQUE_URLS
    /\ "https://other.org/x" \notin UNIQUE_URLS

\* C19: crawlWebsite leaves its loop and returns only with an empty queue and
\* no processUrl call pending; with urlPersistence it calls the final save
\* once, after the loop, for the UNIQUE_URLS and VISITED_URLS it returns, and
\* returns only when that save has settled; without it there is no final save.
C19_ReturnsWhenDrained ==
    /\ [](pc \in {"final", "finalSave", "done"} => QUEUE = <<>> /\ activePromises = {})
    /\ [](\A sv \in pendingSaves :
             sv.final /\ sv.stage = "write"
                => /\ sv.data.processedUrls = UNIQUE_URLS
                   /\ sv.data.visitedUrls = VISITED_URLS)
    /\ [][/\ pc \in {"finalSave", "done"} => pc' \in {"finalSave", "done"}
          /\ (\E sv \in pendingSaves' \ pendingSaves : sv.final /\ sv.stage = "ensure")
                => pc = "final" /\ pc' = "finalSave" /\ opts.urlPersistence
          /\ (pc # "done" /\ pc' = "done")
                => /\ ~\E sv \in pendingSaves : sv.final
                   /\ pc = (IF opts.urlPersistence THEN "finalSave" ELSE "final")]_vars

\* a run with urlPersistence has returned after its final save was written
C19_ReturnedAfterFinalSave ==
    /\ pc = "done"
    /\ opts.urlPersistence
    /\ pendingSaves = {}
    /\ VISITED_URLS # {}
    /\ ledger.processedUrls = UNIQUE_URLS
    /\ ledger.visitedUrls = VISITED_URLS

(***************************************************************************)
(* Properties of the persistence ledger                                    *)
(***************************************************************************)

\* C20: loadProcessedUrls never throws; when the file of the hostname does
\* not exist, cannot be read or does not hold a JSON object, it returns empty
\* processedUrls and visitedUrls and totalProcessed 0.
C20_LoadNeverThrows ==
    call.op = "loadProcessedUrls"
    => /\ ~call.returned[1].threw
       /\ (call.file.state # "readable" \/ call.file.json # "object")
             => /\ call.returned[1].value.processedUrls = {}
                /\ call.returned[1].value.visitedUrls = {}
                /\ call.returned[1].value.totalProcessed = 0

\* a file whose text is no JSON has been loaded
C20_CorruptedFileLoaded ==
    /\ call.op = "loadProcessedUrls"
    /\ call.file.state = "readable"
    /\ call.file.json = "SyntaxError"
    /\ call.returned = <<Returns(NoRecord)>>

\* C21 as stated: a load that follows a successful save(h, U, V, n) returns
\* processedUrls = U, visitedUrls = V and totalProcessed = n, whatever the
\* file held before.
C21_RoundTrip ==
    call.op = "loadAfterSave"
    => call.returned[2] = Returns([processedUrls  |-> call.processedUrls,
                                   visitedUrls    |-> call.visitedUrls,
                                   totalProcessed |-> call.totalProcessed])

\* C21, amended: the load returns U, V and n when n > 0, and U, V and the
\* size of U when n = 0, whatever the file held before.
C21_RoundTripButZero ==
    call.op = "loadAfterSave"
    => call.returned[2] = Returns([processedUrls  |-> call.processedUrls,
                                   visitedUrls    |-> call.visitedUrls,
                                   totalProcessed |->
                                       IF call.totalProcessed = 0
                                       THEN Cardinality(call.processedUrls)
                                       ELSE call.totalProcessed])

\* two URLs have been saved with totalProcessed 0 and loaded again
C21_SavedWithZeroLoaded ==
    /\ call.op = "loadAfterSave"
    /\ call.processedUrls = {Host \o "/guide/a", Host \o "/guide/b"}
    /\ call.visitedUrls = {Host}
    /\ call.totalProcessed = 0
    /\ call.returned[2].value.totalProcessed = 2

\* C22: a save that fails (periodic or final) leaves UNIQUE_URLS,
\* VISITED_URLS, QUEUE, the pending processUrl calls and the position of
\* crawlWebsite as they are, and a run with urlPersistence returns, also when
\* every one of its saves fails.
C22_SaveFailureHarmless ==
    /\ [][(\E sv \in pendingSaves : pendingSaves' = pendingSaves \ {sv} /\ ledger' = ledger)
             => /\ UNIQUE_URLS' = UNIQUE_URLS
                /\ VISITED_URLS' = VISITED_URLS
                /\ QUEUE' = QUEUE
                /\ activePromises' = activePromises
                /\ pc' = pc]_vars
    /\ [](opts.urlPersistence => <>(pc = "done" /\ ~\E sv \in pendingSaves : sv.final))

\* a run with urlPersistence has returned its sets although no save was
\* written
C22_ReturnedWithoutRecord ==
    /\ pc = "done"
    /\ opts.urlPersistence
    /\ pendingSaves = {}
    /\ ledger = NoRecord
    /\ VISITED_URLS # {}
    /\ UNIQUE_URLS # {}

(***************************************************************************)
(* Properties of the result sink                                           *)
(***************************************************************************)

\* C23: after any sequence of saveUniqueUrls calls no two lines of the output
\* file are the same URL in cleaned form, and a call only appends: the lines
\* written before stay, in their order.
C23_AppendOnlyNoDuplicate ==
    /\ [](\A i, j \in 1..Len(call.lines) :
             cleanUrlOf[call.lines[i]] = cleanUrlOf[call.lines[j]] => i = j)
    /\ [][/\ Len(call.lines') >= Len(call.lines)
          /\ SubSeq(call.lines', 1, Len(call.lines)) = call.lines]_vars

(***************************************************************************)
(* Properties of the render task's browser page                            *)
(***************************************************************************)

\* C24: a render task that has completed, whatever its outcome, holds no open
\* browser page: a page is open only between browser.newPage() and the
\* finally block, and when the crawl has returned no task's page is left open.
C24_PageClosed ==
    /\ \A t \in activePromises :
          t.page => t.at \in {"goto", "title", "links", "finally"}
    /\ pc = "done" => openTabs = opts.otherTabs

\* a render whose page.goto timed out has completed and its page is closed
C24_ClosedAfterTimeout ==
    \E t \in activePromises :
        /\ t.at = "resolved" /\ t.outcome = "timeout"
        /\ Count(renders, t.address) > 0 /\ ~t.page

(***************************************************************************)
(* Properties of the Unique and Visited sets                               *)
(***************************************************************************)

\* C25: no step of a crawl run removes an element from the Unique set or from
\* the Visited set.
C25_SetsGrow ==
    [][UNIQUE_URLS \subseteq UNIQUE_URLS' /\ VISITED_URLS \subseteq VISITED_URLS']_vars

\* a crawl with a ledger has returned after both sets grew and a record was written
C25_GrownAndPersisted ==
    /\ pc = "done" /\ ledger # NoRecord
    /\ Cardinality(UNIQUE_URLS) >= 3 /\ Cardinality(VISITED_URLS) >= 3

(***************************************************************************)
(* Properties of the command line                                          *)
(***************************************************************************)

\* C26: when the first argument is missing or is no absolute http or https
\* URL, the process exits with a non-zero code and neither the browser is
\* launched nor a crawl started.
C26_BadArgumentExits ==
    (call.op = "main" /\ (call.argv = <<>> \/ ~isValidUrl(call.argv[1])))
        => /\ call.returned[1].exitCode # 0
           /\ ~call.returned[1].browser
           /\ ~call.returned[1].crawl

(***************************************************************************)
(* Properties of an early end of the crawl                                 *)
(***************************************************************************)

\* C27: once the caller's stop flag is raised no further URL is dispatched (no
\* processUrl call is made and no entry is taken from the queue), and the loop ends
\* when the renders in flight have completed.
C27_StopsWhenFlagged ==
    /\ [][stopFlag => nextId' = nextId /\ popLog' = popLog]_vars
    /\ [](stopFlag => <>(pc = "done"))

(***************************************************************************)
(* Properties of checkKeywordMatch                                         *)
(***************************************************************************)
\* a keyword the generated test cases expect to be left out: empty, shorter
\* than two characters, or holding a script tag or a javascript: protocol
leftOut(keyword) ==
    \/ Len(trim(keyword)) < minKeywordLength
    \/ ContainsAny(toLowerCase(keyword), {"<script", "javascript:"})

\* the result the generated test cases expect
expectedMatch(keywords, content, options) ==
    IF \A i \in 1..Len(keywords) : leftOut(keywords[i]) THEN TRUE
    ELSE IF options.logicalAnd
    THEN \A i \in 1..Len(keywords) : keywordFound(keywords[i], content, options)
    ELSE \E i \in 1..Len(keywords) : keywordFound(keywords[i], content, options)

\* C28: checkKeywordMatch returns matches = true for a keyword list that is
\* empty or holds only empty, too short or forbidden keywords; for any other
\* list it returns, with OR logic, whether some keyword occurs in an enabled
\* content area and, with AND logic, whether every keyword does.
C28_MatchesAsTested ==
    (call.op = "checkKeywordMatch" /\ ~call.returned[1].threw)
        => call.returned[1].value.matches
              = expectedMatch(call.keywords, call.content, call.matchOptions)

(***************************************************************************)
(* Properties of the links a render returns                                *)
(***************************************************************************)

\* C29: when the render of a URL dispatched at depth d has resolved, exactly
\* the returned links that are not in Unique, that the classifier admits and
\* for which d + 1 <= maxDepth are added to Unique and pushed, once each and
\* at depth d + 1, to the back of the queue; nothing else changes in either.
C29_LinksEnqueued ==
    [][\A t \in activePromises :
          (t.at = "resolved" /\ activePromises' = activePromises \ {t})
          => LET admitted == {L \in Range(t.links) :
                                 /\ L \notin UNIQUE_URLS
                                 /\ t.depth + 1 <= opts.maxDepth
                                 /\ shouldVisit(L)}
                 pushed == SubSeq(QUEUE', Len(QUEUE) + 1, Len(QUEUE'))
             IN  /\ UNIQUE_URLS' = UNIQUE_URLS \cup admitted
                 /\ Len(QUEUE') = Len(QUEUE) + Cardinality(admitted)
                 /\ SubSeq(QUEUE', 1, Len(QUEUE)) = QUEUE
                 /\ {e.url : e \in Range(pushed)} = admitted
                 /\ \A e \in Range(pushed) : e.depth = t.depth + 1]_vars

\* the start page has been rendered: its link to the guide waits at depth 1,
\* its links to the style sheet and to the login page were not admitted
C29_GuideQueuedStyleSheetNot ==
    /\ opts.uniqueUrls = <<>> /\ processedCount >= 1
    /\ \E e \in Range(QUEUE) : e.depth = 1 /\ e.url = Host \o "/guide/a"
    /\ {Host \o "/style.css", Host \o "/login"} \cap UNIQUE_URLS = {}
    /\ \E v \in verdicts : v.result = "ok"

(***************************************************************************)
(* Properties of the entries the dispatch phase does not render            *)
(***************************************************************************)

\* C30: a pass of the dispatch loop that takes from the queue an entry already
\* in Visited changes nothing but the queue, and a pass that takes an entry
\* the classifier rejects adds its URL to Visited; in both cases no render
\* task is started, Unique and the tasks in flight are unchanged and the loop
\* stays in the dispatch phase.
C30_EntryDropped ==
    [][(QUEUE # <<>> /\ QUEUE' = Tail(QUEUE) /\ popLog' # popLog)
          => LET url == Head(QUEUE).url
             IN  /\ url \in VISITED_URLS => VISITED_URLS' = VISITED_URLS
                 /\ (url \notin VISITED_URLS /\ ~shouldVisit(url))
                        => VISITED_URLS' = VISITED_URLS \cup {url}
                 /\ (url \in VISITED_URLS \/ ~shouldVisit(url))
                        => /\ activePromises' = activePromises /\ nextId' = nextId
                           /\ UNIQUE_URLS' = UNIQUE_URLS /\ pc' = "dispatch"
                           /\ processedCount' = processedCount
                           /\ pendingSaves' = pendingSaves /\ verdicts' = verdicts]_vars

\* a crawl started at the login page: the entry was taken from the queue,
\* rejected and marked visited, and no processUrl call was made
C30_RejectedStartMarked ==
    /\ popLog = <<opts.startUrl>> /\ ~shouldVisit(opts.startUrl)
    /\ opts.startUrl \in VISITED_URLS \ opts.visitedUrls
    /\ nextId = 0 /\ activePromises = {} /\ pc = "dispatch"

(***************************************************************************)
(* Properties of the frontier                                              *)
(***************************************************************************)

\* C31: the entries ever pushed onto the queue (those taken from it so far,
\* followed by those waiting) only grow at the back, so an entry is taken once
\* and never put back, and no two of them are the same canonical URL, the seed
\* and the continuation entries included.
C31_PushedOnce ==
    /\ [](\A i, j \in 1..(Len(popLog) + Len(QUEUE)) :
             LET pushed == popLog \o [k \in 1..Len(QUEUE) |-> QUEUE[k].url]
             IN  cleanUrlOf[normalizeUrlOf[pushed[i]]] = cleanUrlOf[normalizeUrlOf[pushed[j]]]
                    => i = j)
    /\ [][LET pushed == popLog \o [k \in 1..Len(QUEUE) |-> QUEUE[k].url]
              after == popLog' \o [k \in 1..Len(QUEUE') |-> QUEUE'[k].url]
          IN  Len(after) >= Len(pushed) /\ SubSeq(after, 1, Len(pushed)) = pushed]_vars

(***************************************************************************)
(* Properties of the Visited set during a render                           *)
(***************************************************************************)

\* C32: a dispatched URL enters Visited only in the callback of its processUrl
\* call: while the call is pending and has not settled, its URL is not in
\* Visited, and the callback that settles it is the step that adds it.
C32_VisitedOnCompletion ==
    /\ [](\A t \in activePromises :
             t.at \notin {"resolved", "rejected"} => t.url \notin VISITED_URLS)
    /\ [][\A t \in activePromises :
             (t.at \in {"resolved", "rejected"} /\ t.outcome # "skipped"
              /\ activePromises' = activePromises \ {t})
                 => t.url \notin VISITED_URLS /\ t.url \in VISITED_URLS']_vars

(***************************************************************************)
(* Properties of the order of dispatch                                     *)
(***************************************************************************)

\* C33: entries leave the queue in the order they entered it: a step that
\* takes an entry takes the oldest one and leaves the others in place, every
\* other step keeps the waiting entries and adds new ones behind them, and of
\* two pending processUrl calls the one made first is for the entry taken first.
C33_FifoDispatch ==
    /\ [][IF popLog' # popLog
          THEN QUEUE # <<>> /\ popLog' = Append(popLog, Head(QUEUE).url)
               /\ QUEUE' = Tail(QUEUE)
          ELSE Len(QUEUE') >= Len(QUEUE) /\ SubSeq(QUEUE', 1, Len(QUEUE)) = QUEUE]_vars
    /\ [](\A t1, t2 \in activePromises :
             t1.id < t2.id =>
                 \E i, j \in 1..Len(popLog) :
                     i < j /\ popLog[i] = t1.url /\ popLog[j] = t2.url)

\* completion order differs from dispatch order: the call made second has
\* settled with success while the call made first is still pending, and an
\* entry discovered meanwhile waits behind
C33_SecondFinishedFirst ==
    /\ QUEUE # <<>>
    /\ \E t \in activePromises : \E v \in verdicts :
          /\ v.result = "ok" /\ t.id = 1 /\ Len(popLog) >= 2
          /\ popLog[1] = t.url /\ popLog[2] = v.url

(***************************************************************************)
(* Properties of the periodic snapshots                                    *)
(***************************************************************************)

\* C34: with a ledger configured, the size of Visited does not grow beyond a
\* multiple of SAVE_EVERY reached during the run unless a periodic save was
\* started at that size, whichever step added the URL.
C34_SaveEveryTen ==
    [][(/\ opts.urlPersistence
        /\ Cardinality(VISITED_URLS) % SAVE_EVERY = 0
        /\ Cardinality(VISITED_URLS) > Cardinality(opts.visitedUrls)
        /\ Cardinality(VISITED_URLS') > Cardinality(VISITED_URLS))
           => Cardinality(VISITED_URLS) \in savesStarted]_vars

(***************************************************************************)
(* Properties of the coverage of Unique                                    *)
(***************************************************************************)

\* C35: every URL that is in Unique at some point of a run is in Visited at a
\* later point: crawlWebsite returns, and when it has returned Unique, which
\* never loses a member, is a subset of Visited.
C35_UniqueIsVisited ==
    /\ <>(pc = "done" /\ UNIQUE_URLS \subseteq VISITED_URLS)
    /\ [](pc = "done" => UNIQUE_URLS \subseteq VISITED_URLS)
    /\ [][UNIQUE_URLS \subseteq UNIQUE_URLS']_vars

\* a continuation run has returned: the persisted entries and a link
\* discovered at depth 2 are in Unique and all of Unique is in Visited
C35_ReturnedAllVisited ==
    /\ pc = "done" /\ opts.uniqueUrls # <<>>
    /\ UNIQUE_URLS \subseteq VISITED_URLS
    /\ Range(opts.uniqueUrls) \cup {normalizeUrlOf[opts.startUrl]} # UNIQUE_URLS

(***************************************************************************)
(* Properties of the render of an admitted URL                             *)
(***************************************************************************)

C37_PathDecides ==
    (/\ call.op = "shouldVisitUrl"
     /\ call.url.type = "string" /\ call.baseUrl.type = "string"
     /\ call.options.type # "null"
     /\ \A k \in 1..Len(call.options.keywords.items) :
            call.options.keywords.items[k].type = "string"
     /\ ParseUrl(call.url.value).ok /\ ParseUrl(call.baseUrl.value).ok
     /\ ParseUrl(call.url.value).hostname = ParseUrl(call.baseUrl.value).hostname)
    => LET rule == filterRule(call.url.value, call.baseUrl.value,
                              [k \in 1..Len(call.options.keywords.items) |->
                                  call.options.keywords.items[k].value])
           P    == toLowerCase(ParseUrl(call.url.value).pathname)
       IN  /\ rule = 3 => isAuthUrl(P)
           /\ rule = 4 => isTechnical(P)
           /\ rule = 5 => isNonContent(P)
           /\ rule = 7 => ContainsAny(P, trackingPatterns)

\* C38: when crawlWebsite has returned and its final save was written, the
\* record of the hostname holds exactly the returned Unique and Visited sets:
\* no periodic save that was pending when the final save started writes an
\* older snapshot over it.
C38_RecordIsReturned ==
    (pc = "done" /\ finalSaved)
    => /\ ledger.processedUrls = UNIQUE_URLS
       /\ ledger.visitedUrls = VISITED_URLS

\* C39: the browser never has more than MAX_CONCURRENT_PAGES tabs open,
\* however the render tasks interleave between the tab count they read in
\* waitForAvailableTab and their browser.newPage().
C39_TabsBounded == openTabs <= MAX_CONCURRENT_PAGES

\* C40: updateProcessedUrls loses no data.  Once every call made for a
\* hostname has completed, in whatever order their loads and writes were
\* interleaved, the file holds the URLs of the prior record and every URL
\* that was passed to a call, in processedUrls and in visitedUrls.
C40_UpdatesKept ==
    (call.op = "updates" /\ pendingSaves = {} /\ call.returned # <<>>)
    => /\ call.processedUrls \subseteq setOf(call.file.processedUrls)
       /\ call.visitedUrls \subseteq setOf(call.file.visitedUrls)

=============================================================================
